---- MODULE Spec2Model ----
(***************************************************************************)
(* A model of the go-dcpp hub: the live configuration store                *)
(* (hub/config.go), the IRC bridge (ServeIRC, ircHandshake, ircAccept,     *)
(* ircPeer), the NMDC connection wrapper (nmdc.Conn) and the ADC client's  *)
(* hub connection (adc/client) with its handshake and peer table, and the  *)
(* hub pinger (dc.Ping) and the myip plugin.                               *)
(*                                                                         *)
(* Twelve specifications share the variables: SpecConfig, SpecIRC,         *)
(* SpecNMDC, SpecADC, SpecDeliver, SpecEnc, SpecHandshake, SpecPing,       *)
(* SpecRevConn, SpecGetters, SpecMerge and SpecMyIP.  Each one moves only  *)
(* its own part of the state (SpecGetters and SpecMerge also the           *)
(* configuration).                                                         *)
(***************************************************************************)
EXTENDS Integers, Sequences, FiniteSets, TLC

VARIABLES
    conf,        \* the hub's configuration: dedicated fields + generic map m
    private0,    \* value of Config.Private given to NewHub (never changes)
    cfgTried,    \* history: how setter calls have named ignored keys so far
    cfgKeys,     \* the keys the callers of this run use (fixed at start)
    cfgLast,     \* history: key and value of the call if the last one was
                 \* SetConfig
    \* ---- IRC bridge (hub/irc.go) ----
    reserved,    \* h.peers.reserved: nicks reserved by an in-flight handshake
    byName,      \* h.peers.byName: nick -> connection task of the online peer
    irc,         \* per connection task: the locals of ServeIRC/ircHandshake
    sent,        \* per connection: the messages written to it, in order
    extra,       \* client messages sent so far beyond the ones a login needs
    \* ---- NMDC connection (nmdc.Conn) ----
    conn,        \* the fields of one Conn and counters of the closes made
    ntask,       \* per task using the Conn: its position and locals
    closeRets,   \* return values of the completed Close calls, in order
    \* ---- ADC client-to-hub connection (adc/client) ----
    hubc,        \* the channels of one client Conn, its readLoop, the closes made
    ctask,       \* per task calling Conn.Close: its position
    \* ---- IRC peers as recipients of events (hub/irc.go) ----
    dpeers,      \* per online peer: holder of its wmu, its socket takes writes
    dout,        \* per online peer: the messages written to it, in order
    dorig,       \* per origin task: its position, what it read, its dispatch
    evlog,       \* the last call of a method an IRC peer does not support
    \* ---- NMDC connection: text encoding ----
    nenc,        \* fallback, encoder and decoder of one Conn; what used them
    \* ---- ADC client: handshake with the hub ----
    hs,          \* one call of HubHandshake and the Conn it makes
    ptab,        \* the Conn's peer table
    \* ---- the hub pinger ----
    ping,        \* one call of Ping: what it is given and what it returns
    \* ---- ADC client: reverse connections ----
    rev,         \* outstanding tokens, their channels, the pending senders
    \* ---- typed getters of the configuration ----
    got,         \* the value one key was given and what each getter returned
    \* ---- MergeConfig ----
    mrg,         \* the maps merged so far: how many, the last, the state before
    \* ---- the myip plugin ----
    ipc          \* the peers' remote addresses, the callers, what each was sent

cvars == <<conf, private0, cfgTried, cfgKeys, cfgLast>>
ivars == <<reserved, byName, irc, sent, extra>>
nvars == <<conn, ntask, closeRets>>
avars == <<hubc, ctask>>
dvars == <<dpeers, dout, dorig, evlog>>
evars == <<nenc>>
hvars == <<hs, ptab>>
pvars == <<ping>>
rvars == <<rev>>
gvars == <<got>>
mvars == <<mrg>>
yvars == <<ipc>>
vars == <<cvars, ivars, nvars, avars, dvars, evars, hvars, pvars, rvars, gvars, mvars, yvars>>

(***************************************************************************)
(*                         hub/config.go                                   *)
(***************************************************************************)

ConfigHubName == "hub.name"
ConfigHubDesc == "hub.desc"
ConfigHubTopic == "hub.topic"
ConfigHubOwner == "hub.owner"
ConfigHubWebsite == "hub.website"
ConfigHubEmail == "hub.email"
ConfigBotName == "bot.name"
ConfigBotDesc == "bot.desc"
ConfigHubMOTD == "hub.motd"
ConfigHubPrivate == "hub.private"
ConfigChatGlobalEnabled == "chat.global.enabled"
ConfigZlibLevel == "zlib.level"
ConfigNMDCRedirectTLS == "nmdc.redirect.tls"
ConfigNMDCRedirectADC == "nmdc.redirect.adc"
ConfigADCRedirectTLS == "adc.redirect.tls"

configAliases ==
    [k \in {"name", "desc", "topic", "owner", "website", "email", "botname",
            "botdesc", "motd", "private"} |->
        CASE k = "name" -> ConfigHubName
          [] k = "desc" -> ConfigHubDesc
          [] k = "topic" -> ConfigHubTopic
          [] k = "owner" -> ConfigHubOwner
          [] k = "website" -> ConfigHubWebsite
          [] k = "email" -> ConfigHubEmail
          [] k = "botname" -> ConfigBotName
          [] k = "botdesc" -> ConfigBotDesc
          [] k = "motd" -> ConfigHubMOTD
          [] k = "private" -> ConfigHubPrivate]

configIgnored ==
    {"chat.encoding", "chat.log.join", "chat.log.max", "database.path",
     "database.type", "plugins.path", "serve.host", "serve.port",
     "serve.tls.cert", "serve.tls.key", ConfigHubPrivate}

\* A faulty variant: aliases are not looked up
resolveAlias_Identity(key) == key

\* `if alias, ok := configAliases[key]; ok { key = alias }`
resolveAlias(key) ==
    IF key \in DOMAIN configAliases THEN configAliases[key] ELSE key

\* The orders in which a `range` can visit the set S.
Orders(S) ==
    {q \in [1..Cardinality(S) -> S] : \A i, j \in 1..Cardinality(S) :
                                        i # j => q[i] # q[j]}

\* A Go interface{} value: its dynamic type t and the payload of that type.
Val(t, b, s, n) == [t |-> t, b |-> b, s |-> s, n |-> n]
VBool(b) == Val("bool", b, "", 0)
VStr(s) == Val("string", FALSE, s, 0)
VInt(n) == Val("int64", FALSE, "", n)
VUint(n) == Val("uint64", FALSE, "", n)
VFloat(n) == Val("float64", FALSE, "", n)
VNil == Val("nil", FALSE, "", 0)

\* The hub after NewHub: every dedicated field at its zero value except the
\* ones taken from hub.Config; the generic map is nil (empty).
NewConf(priv) ==
    [Name |-> "", Desc |-> "", Topic |-> "", MOTD |-> "", Owner |-> "",
     Website |-> "", Email |-> "", BotName |-> "", BotDesc |-> "",
     Private |-> priv, GlobalChat |-> TRUE, ZlibLevel |-> 0,
     RedirNMDCTLS |-> FALSE, RedirNMDCADC |-> FALSE, RedirADCTLS |-> FALSE,
     m |-> <<>>, panicked |-> FALSE]

\* A faulty variant: the generic map accepts ignored keys
setConfigMap_NoIgnore(c, key, val) ==
    [c EXCEPT !.m = [k \in DOMAIN c.m \cup {key} |->
                        IF k = key THEN val ELSE c.m[k]]]

setConfigMap(c, key, val) ==
    IF key \in configIgnored THEN c
    ELSE [c EXCEPT !.m = [k \in DOMAIN c.m \cup {key} |->
                            IF k = key THEN val ELSE c.m[k]]]

\* The integers of the model are IntBits wide where the program's are 64.
IntBits == 8
MaxInt64 == 2^(IntBits - 1) - 1
MinInt64 == -(2^(IntBits - 1))
MaxUint64 == 2^IntBits - 1

\* The Go conversions int64(v) and uint64(v) of an integer; the floats of
\* the model are whole and non-negative.
toInt64(n) == ((n + 2^(IntBits - 1)) % 2^IntBits) - 2^(IntBits - 1)
toUint64(n) == n % 2^IntBits

\* The characters of the strings of the model.
Chars(s) ==
    CASE s = "" -> <<>>
      [] s = "a" -> <<"a">>
      [] s = "b" -> <<"b">>
      [] s = "abc" -> <<"a", "b", "c">>
      [] s = "true" -> <<"t", "r", "u", "e">>
      [] s = "7" -> <<"7">>
      [] s = "-3" -> <<"-", "3">>
      [] s = "9999" -> <<"9", "9", "9", "9">>

DigitChars == <<"0", "1", "2", "3", "4", "5", "6", "7", "8", "9">>

IsDigit(ch) == \E i \in DOMAIN DigitChars : DigitChars[i] = ch

DigitVal(ch) == (CHOOSE i \in DOMAIN DigitChars : DigitChars[i] = ch) - 1

AllDigits(cs) == cs # <<>> /\ \A i \in DOMAIN cs : IsDigit(cs[i])

RECURSIVE Decimal(_, _)
Decimal(cs, acc) ==
    IF cs = <<>> THEN acc ELSE Decimal(Tail(cs), acc * 10 + DigitVal(Head(cs)))

\* strconv.ParseUint(s, 10, 64): no sign; 0 on a syntax error, the largest
\* value on a range error.
ParseUint(s) ==
    LET cs == Chars(s) IN
    IF ~AllDigits(cs) THEN [v |-> 0, err |-> "syntax"]
    ELSE IF Decimal(cs, 0) > MaxUint64 THEN [v |-> MaxUint64, err |-> "range"]
    ELSE [v |-> Decimal(cs, 0), err |-> "nil"]

\* strconv.ParseInt(s, 10, 64): an optional sign; 0 on a syntax error, the
\* nearest value on a range error.
ParseInt(s) ==
    LET cs == Chars(s)
        signed == cs # <<>> /\ Head(cs) \in {"+", "-"}
        neg == cs # <<>> /\ Head(cs) = "-"
        body == IF signed THEN Tail(cs) ELSE cs IN
    IF ~AllDigits(body) THEN [v |-> 0, err |-> "syntax"]
    ELSE LET n == Decimal(body, 0) IN
         IF ~neg /\ n > MaxInt64 THEN [v |-> MaxInt64, err |-> "range"]
         ELSE IF neg /\ n > -MinInt64 THEN [v |-> MinInt64, err |-> "range"]
         ELSE [v |-> IF neg THEN -n ELSE n, err |-> "nil"]

\* strconv.ParseFloat(s, 64) of the strings of the model, none of which has
\* a fraction or an exponent or is out of a float's range.
ParseFloat(s) ==
    LET cs == Chars(s)
        signed == cs # <<>> /\ Head(cs) \in {"+", "-"}
        neg == cs # <<>> /\ Head(cs) = "-"
        body == IF signed THEN Tail(cs) ELSE cs IN
    IF ~AllDigits(body) THEN [v |-> 0, err |-> "syntax"]
    ELSE [v |-> IF neg THEN -Decimal(body, 0) ELSE Decimal(body, 0), err |-> "nil"]

\* strconv.ParseBool
ParseBool(s) ==
    IF s \in {"1", "t", "T", "TRUE", "true", "True"} THEN [v |-> TRUE, err |-> "nil"]
    ELSE IF s \in {"0", "f", "F", "FALSE", "false", "False"}
         THEN [v |-> FALSE, err |-> "nil"]
    ELSE [v |-> FALSE, err |-> "syntax"]

\* A faulty variant: a string that does not parse gives 0, whatever the error
intOfString_ZeroOnError(s) == IF ParseInt(s).err # "nil" THEN 0 ELSE ParseInt(s).v

\* `i, _ := strconv.ParseInt(v, 10, 64)`
intOfString(s) == ParseInt(s).v

\* `i, _ := strconv.ParseUint(v, 10, 64)`
uintOfString(s) == ParseUint(s).v

\* `f, _ := strconv.ParseFloat(v, 64)`
floatOfString(s) == ParseFloat(s).v

\* `b, _ := strconv.ParseBool(v)`
boolOfString(s) == ParseBool(s).v

getConfigMap(c, key) ==
    IF key \in DOMAIN c.m THEN [v |-> c.m[key], ok |-> TRUE]
    ELSE [v |-> VNil, ok |-> FALSE]

setConfigString(c, key0, val) ==
    LET key == resolveAlias(key0) IN
    CASE key = ConfigHubName -> [c EXCEPT !.Name = val]
      [] key = ConfigHubDesc -> [c EXCEPT !.Desc = val]
      [] key = ConfigHubTopic -> [c EXCEPT !.Topic = val]
      [] key = ConfigHubMOTD -> [c EXCEPT !.MOTD = val]
      [] key = ConfigHubOwner -> [c EXCEPT !.Owner = val]
      [] key = ConfigHubWebsite -> [c EXCEPT !.Website = val]
      [] key = ConfigHubEmail -> [c EXCEPT !.Email = val]
      [] key = ConfigBotName -> [c EXCEPT !.BotName = val]
      [] key = ConfigBotDesc -> [c EXCEPT !.BotDesc = val]
      [] OTHER -> setConfigMap(c, key, VStr(val))

setConfigBool(c, key0, val) ==
    LET key == resolveAlias(key0) IN
    IF key \in configIgnored THEN c
    ELSE CASE key = ConfigChatGlobalEnabled -> [c EXCEPT !.GlobalChat = val]
           [] key = ConfigNMDCRedirectTLS -> [c EXCEPT !.RedirNMDCTLS = val]
           [] key = ConfigNMDCRedirectADC -> [c EXCEPT !.RedirNMDCADC = val]
           [] key = ConfigADCRedirectTLS -> [c EXCEPT !.RedirADCTLS = val]
           [] OTHER -> setConfigMap(c, key, VBool(val))

setConfigInt(c, key0, val) ==
    LET key == resolveAlias(key0) IN
    IF key \in configIgnored THEN c
    ELSE IF key = ConfigZlibLevel THEN [c EXCEPT !.ZlibLevel = val]
    ELSE setConfigMap(c, key, VInt(val))

\* A faulty variant: unsigned values are stored as int64
setConfigUint_AsInt(c, key0, val) ==
    LET key == resolveAlias(key0) IN
    IF key \in configIgnored THEN c
    ELSE setConfigMap(c, key, VInt(val))

setConfigUint(c, key0, val) ==
    LET key == resolveAlias(key0) IN
    IF key \in configIgnored THEN c
    ELSE setConfigMap(c, key, VUint(val))

setConfigFloat(c, key0, val) ==
    LET key == resolveAlias(key0) IN
    IF key \in configIgnored THEN c
    ELSE setConfigMap(c, key, VFloat(val))

\* The type switch of setConfig: narrower integer and float types are widened,
\* any other dynamic type panics.  saveConfig persists nothing (a TODO).
setConfig(c, key, val) ==
    IF key \in configIgnored THEN c
    ELSE CASE val.t = "bool" -> setConfigBool(c, key, val.b)
           [] val.t = "string" -> setConfigString(c, key, val.s)
           [] val.t \in {"int", "int64", "int32"} -> setConfigInt(c, key, val.n)
           [] val.t \in {"uint", "uint64", "uint32"} -> setConfigUint(c, key, val.n)
           [] val.t \in {"float64", "float32"} -> setConfigFloat(c, key, val.n)
           [] OTHER -> [c EXCEPT !.panicked = TRUE]

GetConfigString(c, key0) ==
    LET key == resolveAlias(key0) IN
    CASE key = ConfigHubName -> [v |-> c.Name, ok |-> TRUE]
      [] key = ConfigHubDesc -> [v |-> c.Desc, ok |-> TRUE]
      [] key = ConfigHubTopic -> [v |-> c.Topic, ok |-> TRUE]
      [] key = ConfigHubMOTD -> [v |-> c.MOTD, ok |-> TRUE]
      [] key = ConfigHubOwner -> [v |-> c.Owner, ok |-> TRUE]
      [] key = ConfigHubWebsite -> [v |-> c.Website, ok |-> TRUE]
      [] key = ConfigHubEmail -> [v |-> c.Email, ok |-> TRUE]
      [] key = ConfigBotName -> [v |-> c.BotName, ok |-> TRUE]
      [] key = ConfigBotDesc -> [v |-> c.BotDesc, ok |-> TRUE]
      [] OTHER ->
           LET g == getConfigMap(c, key) IN
           IF ~g.ok \/ g.v.t = "nil" THEN [v |-> "", ok |-> FALSE]
           ELSE IF g.v.t = "string" THEN [v |-> g.v.s, ok |-> TRUE]
           ELSE IF g.v.t = "bool"
                THEN [v |-> IF g.v.b THEN "true" ELSE "false", ok |-> TRUE]
           ELSE [v |-> ToString(g.v.n), ok |-> TRUE]

GetConfigBool(c, key0) ==
    LET key == resolveAlias(key0) IN
    CASE key = ConfigHubPrivate -> [v |-> c.Private, ok |-> TRUE]
      [] key = ConfigChatGlobalEnabled -> [v |-> c.GlobalChat, ok |-> TRUE]
      [] key = ConfigNMDCRedirectTLS -> [v |-> c.RedirNMDCTLS, ok |-> TRUE]
      [] key = ConfigNMDCRedirectADC -> [v |-> c.RedirNMDCADC, ok |-> TRUE]
      [] key = ConfigADCRedirectTLS -> [v |-> c.RedirADCTLS, ok |-> TRUE]
      [] OTHER ->
           LET g == getConfigMap(c, key) IN
           IF ~g.ok \/ g.v.t = "nil" THEN [v |-> FALSE, ok |-> FALSE]
           ELSE CASE g.v.t = "bool" -> [v |-> g.v.b, ok |-> TRUE]
                  [] g.v.t \in {"int64", "uint64", "float64"} ->
                        [v |-> g.v.n # 0, ok |-> TRUE]
                  [] g.v.t = "string" -> [v |-> boolOfString(g.v.s), ok |-> TRUE]
                  [] OTHER -> [v |-> FALSE, ok |-> TRUE]

GetConfigInt(c, key0) ==
    LET key == resolveAlias(key0) IN
    IF key = ConfigZlibLevel THEN [v |-> c.ZlibLevel, ok |-> TRUE]
    ELSE LET g == getConfigMap(c, key) IN
         IF ~g.ok \/ g.v.t = "nil" THEN [v |-> 0, ok |-> FALSE]
         ELSE CASE g.v.t = "int64" -> [v |-> g.v.n, ok |-> TRUE]
                [] g.v.t \in {"uint64", "float64"} ->
                        [v |-> toInt64(g.v.n), ok |-> TRUE]
                [] g.v.t = "bool" -> [v |-> IF g.v.b THEN 1 ELSE 0, ok |-> TRUE]
                [] g.v.t = "string" -> [v |-> intOfString(g.v.s), ok |-> TRUE]
                [] OTHER -> [v |-> 0, ok |-> TRUE]

GetConfigUint(c, key0) ==
    LET key == resolveAlias(key0)
        g == getConfigMap(c, key) IN
    IF ~g.ok \/ g.v.t = "nil" THEN [v |-> 0, ok |-> FALSE]
    ELSE CASE g.v.t = "uint64" -> [v |-> g.v.n, ok |-> TRUE]
           [] g.v.t \in {"int64", "float64"} ->
                    [v |-> toUint64(g.v.n), ok |-> TRUE]
           [] g.v.t = "bool" -> [v |-> IF g.v.b THEN 1 ELSE 0, ok |-> TRUE]
           [] g.v.t = "string" -> [v |-> uintOfString(g.v.s), ok |-> TRUE]
           [] OTHER -> [v |-> 0, ok |-> TRUE]

GetConfigFloat(c, key0) ==
    LET key == resolveAlias(key0)
        g == getConfigMap(c, key) IN
    IF ~g.ok \/ g.v.t = "nil" THEN [v |-> 0, ok |-> FALSE]
    ELSE CASE g.v.t \in {"uint64", "int64", "float64"} ->
                    [v |-> g.v.n, ok |-> TRUE]
           [] g.v.t = "bool" -> [v |-> IF g.v.b THEN 1 ELSE 0, ok |-> TRUE]
           [] g.v.t = "string" -> [v |-> floatOfString(g.v.s), ok |-> TRUE]
           [] OTHER -> [v |-> 0, ok |-> TRUE]

GetConfig(c, key0) ==
    LET key == resolveAlias(key0) IN
    CASE key \in {ConfigHubName, ConfigHubDesc, ConfigHubTopic, ConfigHubMOTD,
                  ConfigHubOwner, ConfigHubWebsite, ConfigHubEmail,
                  ConfigBotName, ConfigBotDesc} ->
            LET r == GetConfigString(c, key) IN
            IF ~r.ok THEN [v |-> VNil, ok |-> FALSE]
            ELSE [v |-> VStr(r.v), ok |-> TRUE]
      [] key = ConfigZlibLevel ->
            LET r == GetConfigInt(c, key) IN
            IF ~r.ok THEN [v |-> VNil, ok |-> FALSE]
            ELSE [v |-> VInt(r.v), ok |-> TRUE]
      [] key \in {ConfigHubPrivate, ConfigChatGlobalEnabled,
                  ConfigNMDCRedirectTLS, ConfigNMDCRedirectADC,
                  ConfigADCRedirectTLS} ->
            LET r == GetConfigBool(c, key) IN
            IF ~r.ok THEN [v |-> VNil, ok |-> FALSE]
            ELSE [v |-> VBool(r.v), ok |-> TRUE]
      [] OTHER ->
            LET g == getConfigMap(c, key) IN
            [v |-> g.v, ok |-> g.ok /\ g.v.t # "nil"]

\* A config-file Map: key -> leaf value, or [t |-> "map", mp |-> Map].
VMap(mp) == [t |-> "map", mp |-> mp]

\* A faulty variant: the path of the enclosing maps is dropped
joinPath_NoPrefix(path, k) == k

\* `if path != "" { k = path + "." + k }`
joinPath(path, k) == IF path # "" THEN path \o "." \o k ELSE k

\* The leaves of MergeConfigPath(path, m) in the orders the `range` over the
\* Go maps can visit them (depth first, keys of each map in any order).
RECURSIVE MergeLeaves(_, _)
MergeLeaves(path, m) ==
    IF DOMAIN m = {} THEN {<<>>}
    ELSE UNION {
        LET k == joinPath(path, k0)
            firsts == IF m[k0].t = "map" THEN MergeLeaves(k, m[k0].mp)
                      ELSE {<<[key |-> k, val |-> m[k0]]>>}
            rests == MergeLeaves(path, [j \in DOMAIN m \ {k0} |-> m[j]])
        IN {f \o r : f \in firsts, r \in rests}
        : k0 \in DOMAIN m}

\* setConfig(k, v, false) for each leaf in turn; a panic ends the call.
RECURSIVE mergeApply(_, _)
mergeApply(c, leaves) ==
    IF leaves = <<>> \/ c.panicked THEN c
    ELSE mergeApply(setConfig(c, Head(leaves).key, Head(leaves).val), Tail(leaves))

MergeConfigPath(c, path, m) ==
    {mergeApply(c, leaves) : leaves \in MergeLeaves(path, m)}

MergeConfig(c, m) == MergeConfigPath(c, "", m)

\* The keys of the model in the byte order of Go's string comparison.
StringOrder ==
    <<ConfigADCRedirectTLS, ConfigBotDesc, ConfigBotName, "botdesc", "botname",
      "chat.encoding", ConfigChatGlobalEnabled, "chat.log.join", "chat.log.max",
      "database.path", "database.type", "desc", "email", ConfigHubDesc,
      ConfigHubEmail, ConfigHubMOTD, ConfigHubName, ConfigHubOwner,
      ConfigHubPrivate, ConfigHubTopic, ConfigHubWebsite, "motd", "name",
      ConfigNMDCRedirectADC, ConfigNMDCRedirectTLS, "owner", "plugins.path",
      "private", "serve.host", "serve.port", "serve.tls.cert", "serve.tls.key",
      "topic", "website", "x.y", ConfigZlibLevel>>

Rank(k) == CHOOSE i \in DOMAIN StringOrder : StringOrder[i] = k

\* sort.Strings, as an insertion sort.
RECURSIVE InsertString(_, _)
InsertString(sorted, k) ==
    IF sorted = <<>> THEN <<k>>
    ELSE IF Rank(k) <= Rank(Head(sorted)) THEN <<k>> \o sorted
    ELSE <<Head(sorted)>> \o InsertString(Tail(sorted), k)

RECURSIVE sortStrings(_)
sortStrings(keys) ==
    IF keys = <<>> THEN <<>>
    ELSE InsertString(sortStrings(Tail(keys)), Head(keys))

\* The keys of a map in the order one `range` yields them.
RECURSIVE RangeKeys(_)
RangeKeys(ks) ==
    IF ks = {} THEN <<>>
    ELSE LET k == CHOOSE x \in ks : TRUE IN <<k>> \o RangeKeys(ks \ {k})

\* ConfigKeys: the built-in keys, then the keys of the generic map that are
\* not ignored, sorted.
ConfigKeys(c) ==
    sortStrings(<<ConfigHubName, ConfigHubDesc, ConfigHubTopic, ConfigHubMOTD,
                  ConfigHubOwner, ConfigHubWebsite, ConfigHubEmail,
                  ConfigBotName, ConfigBotDesc, ConfigHubPrivate,
                  ConfigChatGlobalEnabled, ConfigZlibLevel,
                  ConfigNMDCRedirectTLS, ConfigNMDCRedirectADC,
                  ConfigADCRedirectTLS>>
                \o RangeKeys(DOMAIN c.m \ configIgnored))

\* ---- the calls the model makes ----

UnknownKey == "x.y"

\* A run draws its keys from one of these sets.
KeyProfiles ==
    {configIgnored \cup {"private", UnknownKey},
     {"name", ConfigHubName, "private", ConfigHubPrivate, UnknownKey},
     {ConfigZlibLevel, ConfigChatGlobalEnabled, "serve.port"}}

CfgVals ==
    {VBool(TRUE), VBool(FALSE), VStr("a"), VInt(1), VUint(1), VFloat(1),
     Val("int", FALSE, "", 1), Val("uint32", FALSE, "", 1),
     Val("float32", FALSE, "", 1), VNil}

MergeInputs ==
    {[hub |-> VMap([private |-> VBool(TRUE)])],
     [chat |-> VMap([encoding |-> VStr("a")]), x |-> VMap([y |-> VInt(1)])],
     [private |-> VBool(TRUE), name |-> VStr("a")],
     [serve |-> VMap([port |-> VInt(1), host |-> VStr("a")])]}

\* How a call names an ignored key, if it does.
TriedKind(key) ==
    IF key \in configIgnored THEN {"direct"}
    ELSE IF resolveAlias(key) \in configIgnored THEN {"alias"}
    ELSE {}

MergeTried(m) ==
    IF \E leaves \in MergeLeaves("", m) : \E i \in 1..Len(leaves) :
            resolveAlias(leaves[i].key) \in configIgnored
    THEN {"merge"} ELSE {}

NoCall == [key |-> "", val |-> VNil]

CfgStepLast(c2, tried, last) ==
    /\ ~conf.panicked
    /\ conf' = c2
    /\ cfgTried' = cfgTried \cup tried
    /\ cfgLast' = last
    /\ UNCHANGED <<private0, cfgKeys, ivars, nvars, avars, dvars,
                   evars, hvars, pvars, rvars, gvars, mvars, yvars>>

CfgStep(c2, tried) == CfgStepLast(c2, tried, NoCall)

SetConfig ==
    \E k \in cfgKeys, v \in CfgVals :
        CfgStepLast(setConfig(conf, k, v), TriedKind(k), [key |-> k, val |-> v])

SetConfigString ==
    \E k \in cfgKeys : CfgStep(setConfigString(conf, k, "a"), TriedKind(k))

SetConfigBool ==
    \E k \in cfgKeys, b \in BOOLEAN :
        CfgStep(setConfigBool(conf, k, b), TriedKind(k))

SetConfigInt ==
    \E k \in cfgKeys : CfgStep(setConfigInt(conf, k, 1), TriedKind(k))

SetConfigUint ==
    \E k \in cfgKeys : CfgStep(setConfigUint(conf, k, 1), TriedKind(k))

SetConfigFloat ==
    \E k \in cfgKeys : CfgStep(setConfigFloat(conf, k, 1), TriedKind(k))

MergeConfigCall ==
    \E m \in MergeInputs : \E c2 \in MergeConfig(conf, m) :
        CfgStep(c2, MergeTried(m))

NextConfig ==
    \/ SetConfig
    \/ SetConfigString
    \/ SetConfigBool
    \/ SetConfigInt
    \/ SetConfigUint
    \/ SetConfigFloat
    \/ MergeConfigCall

InitConfig ==
    /\ private0 \in BOOLEAN
    /\ conf = NewConf(private0)
    /\ cfgTried = {}
    /\ cfgKeys \in KeyProfiles
    /\ cfgLast = NoCall

\* ---- config files are merged into a new hub ----

\* A list, one of the types setConfig does not support.
VList == Val("list", FALSE, "", 0)

MergeMaps ==
    {[hub |-> VMap([name |-> VStr("a"), private |-> VBool(TRUE)]),
      x |-> VMap([y |-> VInt(5)])],
     [name |-> VStr("a"), hub |-> VMap([name |-> VStr("b")])],
     [x |-> VMap([y |-> VNil])],
     [serve |-> VMap([port |-> VNil, host |-> VStr("a")])],
     [x |-> VMap([y |-> VList]), zlib |-> VMap([level |-> VInt(5)])],
     [chat |-> VMap([global |-> VMap([enabled |-> VBool(FALSE)])]),
      motd |-> VStr("b")],
     [private |-> VNil],
     [database |-> VMap([path |-> VList])]}

\* Calls of MergeConfig on one hub.
MaxMerges == 3

NoMerge == [n |-> 0, m |-> <<>>, before |-> NewConf(FALSE)]

\* MergeConfig(m): the leaves are set in the order the maps are ranged over.
MergeCall ==
    /\ ~conf.panicked
    /\ mrg.n < MaxMerges
    /\ \E m \in MergeMaps : \E c2 \in MergeConfig(conf, m) :
          /\ conf' = c2
          /\ mrg' = [n |-> mrg.n + 1, m |-> m, before |-> conf]
    /\ UNCHANGED <<private0, cfgTried, cfgKeys, cfgLast, ivars, nvars, avars,
                   dvars, evars, hvars, pvars, rvars, gvars, yvars>>

NextMerge == MergeCall

InitMerge == mrg = NoMerge

InitNoMerge == mrg = NoMerge

\* ---- one key is given a value, or none, and every getter is asked ----

GetKeys == {UnknownKey, "name", ConfigZlibLevel, ConfigChatGlobalEnabled}

GetVals ==
    {VBool(TRUE), VBool(FALSE), VInt(0), VInt(5), VInt(-1), VUint(200),
     VFloat(0), VFloat(2), VStr(""), VStr("true"), VStr("7"), VStr("-3"),
     VStr("abc"), VStr("9999")}

Getters == {"string", "bool", "int", "uint", "float"}

NewGot ==
    [pc |-> "new",         \* "new", then "ask"
     key |-> "",
     set |-> FALSE,        \* SetConfig(key, val) was called
     val |-> VNil,
     asked |-> {},         \* the getters called since
     str |-> [v |-> "", ok |-> FALSE],
     bool |-> [v |-> FALSE, ok |-> FALSE],
     int |-> [v |-> 0, ok |-> FALSE],
     uint |-> [v |-> 0, ok |-> FALSE],
     float |-> [v |-> 0, ok |-> FALSE]]

GStep(c2, g) ==
    /\ conf' = c2
    /\ got' = g
    /\ UNCHANGED <<private0, cfgTried, cfgKeys, cfgLast, ivars, nvars, avars,
                   dvars, evars, hvars, pvars, rvars, mvars, yvars>>

\* SetConfig(k, v) on a new hub.
StoreValue ==
    /\ got.pc = "new"
    /\ \E k \in GetKeys, v \in GetVals :
          GStep(setConfig(conf, k, v),
                [got EXCEPT !.pc = "ask", !.key = k, !.set = TRUE, !.val = v])

\* No call: the key was never set.
StoreNothing ==
    /\ got.pc = "new"
    /\ \E k \in GetKeys : GStep(conf, [got EXCEPT !.pc = "ask", !.key = k])

AskString ==
    /\ got.pc = "ask" /\ "string" \notin got.asked
    /\ GStep(conf, [got EXCEPT !.asked = @ \cup {"string"},
                               !.str = GetConfigString(conf, got.key)])

AskBool ==
    /\ got.pc = "ask" /\ "bool" \notin got.asked
    /\ GStep(conf, [got EXCEPT !.asked = @ \cup {"bool"},
                               !.bool = GetConfigBool(conf, got.key)])

AskInt ==
    /\ got.pc = "ask" /\ "int" \notin got.asked
    /\ GStep(conf, [got EXCEPT !.asked = @ \cup {"int"},
                               !.int = GetConfigInt(conf, got.key)])

AskUint ==
    /\ got.pc = "ask" /\ "uint" \notin got.asked
    /\ GStep(conf, [got EXCEPT !.asked = @ \cup {"uint"},
                               !.uint = GetConfigUint(conf, got.key)])

AskFloat ==
    /\ got.pc = "ask" /\ "float" \notin got.asked
    /\ GStep(conf, [got EXCEPT !.asked = @ \cup {"float"},
                               !.float = GetConfigFloat(conf, got.key)])

NextGetters ==
    \/ StoreValue
    \/ StoreNothing
    \/ AskString
    \/ AskBool
    \/ AskInt
    \/ AskUint
    \/ AskFloat

InitGetters == got = NewGot

InitNoGet == got = NewGot

(***************************************************************************)
(*                      Claims about the configuration                     *)
(***************************************************************************)

\* C1: no sequence of SetConfig, typed setter or MergeConfig calls, also
\* through the alias "private", changes what GetConfig returns for an ignored
\* key or adds an ignored key to the generic map.
C1_IgnoredKeysFrozen ==
    /\ \A k \in configIgnored :
          /\ k \notin DOMAIN conf.m
          /\ GetConfig(conf, k) = GetConfig(NewConf(private0), k)
    /\ GetConfig(conf, "private") = GetConfig(NewConf(private0), "private")

\* C1 witness: ignored keys were targeted directly, through the alias and by
\* a merge, while the same setters did store an unknown key.
C1_Witness ==
    /\ cfgTried = {"direct", "alias", "merge"}
    /\ UnknownKey \in DOMAIN conf.m
    /\ ~conf.panicked

BuiltinKeys ==
    {ConfigHubName, ConfigHubDesc, ConfigHubTopic, ConfigHubMOTD,
     ConfigHubOwner, ConfigHubWebsite, ConfigHubEmail, ConfigBotName,
     ConfigBotDesc, ConfigZlibLevel, ConfigHubPrivate, ConfigChatGlobalEnabled,
     ConfigNMDCRedirectTLS, ConfigNMDCRedirectADC, ConfigADCRedirectTLS}

\* The type a value of a supported type is stored as.
Widened(v) ==
    CASE v.t \in {"int", "int32"} -> VInt(v.n)
      [] v.t \in {"uint", "uint32"} -> VUint(v.n)
      [] v.t = "float32" -> VFloat(v.n)
      [] OTHER -> v

\* The typed getter for the dynamic type of v, its result as a value.
TypedGet(c, key, v) ==
    CASE v.t = "bool" ->
            LET r == GetConfigBool(c, key) IN [v |-> VBool(r.v), ok |-> r.ok]
      [] v.t = "string" ->
            LET r == GetConfigString(c, key) IN [v |-> VStr(r.v), ok |-> r.ok]
      [] v.t = "int64" ->
            LET r == GetConfigInt(c, key) IN [v |-> VInt(r.v), ok |-> r.ok]
      [] v.t = "uint64" ->
            LET r == GetConfigUint(c, key) IN [v |-> VUint(r.v), ok |-> r.ok]
      [] v.t = "float64" ->
            LET r == GetConfigFloat(c, key) IN [v |-> VFloat(r.v), ok |-> r.ok]

\* C20: after SetConfig(k, v) with k no built-in key, alias or ignored key
\* and v a bool, string, integer or float, GetConfig(k) and the typed getter
\* of v's type both return v, widened to int64, uint64 or float64, and true.
C20_UnknownKeyRoundTrip ==
    LET k == cfgLast.key
        v == cfgLast.val IN
    (/\ cfgLast # NoCall
     /\ v.t # "nil"
     /\ k \notin BuiltinKeys \cup DOMAIN configAliases \cup configIgnored) =>
        /\ ~conf.panicked
        /\ GetConfig(conf, k) = [v |-> Widened(v), ok |-> TRUE]
        /\ TypedGet(conf, k, Widened(v)) = [v |-> Widened(v), ok |-> TRUE]

\* C20 witness: the unknown key took a narrower unsigned value, after it had
\* held something else.
C20_Witness ==
    /\ cfgLast = [key |-> UnknownKey, val |-> Val("uint32", FALSE, "", 1)]
    /\ GetConfig(conf, UnknownKey).v = VUint(1)
    /\ "direct" \in cfgTried

\* What a configuration holds, whether or not the call that left it
\* panicked on a value of an unsupported type.
Stored(c) == [c EXCEPT !.panicked = FALSE]

\* C21: an alias and its canonical key are the same key: every getter
\* returns the same for both, every setter called with either leaves the
\* same configuration, and no alias is itself a key of the generic map.
C21_AliasEquivalence ==
    \A a \in DOMAIN configAliases :
        LET k == configAliases[a] IN
        /\ a \notin DOMAIN conf.m
        /\ GetConfig(conf, a) = GetConfig(conf, k)
        /\ GetConfigString(conf, a) = GetConfigString(conf, k)
        /\ GetConfigBool(conf, a) = GetConfigBool(conf, k)
        /\ GetConfigInt(conf, a) = GetConfigInt(conf, k)
        /\ GetConfigUint(conf, a) = GetConfigUint(conf, k)
        /\ GetConfigFloat(conf, a) = GetConfigFloat(conf, k)
        /\ \A v \in CfgVals :
              Stored(setConfig(conf, a, v)) = Stored(setConfig(conf, k, v))
        /\ setConfigString(conf, a, "b") = setConfigString(conf, k, "b")
        /\ \A b \in BOOLEAN : setConfigBool(conf, a, b) = setConfigBool(conf, k, b)
        /\ setConfigInt(conf, a, 2) = setConfigInt(conf, k, 2)
        /\ setConfigUint(conf, a, 2) = setConfigUint(conf, k, 2)
        /\ setConfigFloat(conf, a, 2) = setConfigFloat(conf, k, 2)

\* C21 witness: the hub name was last set through the alias, after the
\* canonical key had been given a value of another type.
C21_Witness ==
    /\ cfgLast = [key |-> "name", val |-> VStr("a")]
    /\ conf.Name = "a"
    /\ ConfigHubName \in DOMAIN conf.m
    /\ GetConfig(conf, ConfigHubName) = [v |-> VStr("a"), ok |-> TRUE]

\* C25: no built-in key is a key of the generic map, whatever SetConfig,
\* typed setter and MergeConfig calls were made.
C25_BuiltinKeysNotInMap ==
    \A k \in BuiltinKeys : k \notin DOMAIN conf.m

\* C35: after any sequence of config calls ConfigKeys returns a list in
\* ascending order that holds every built-in key and every key of the generic
\* map that is not ignored, each key once.
C35_ConfigKeysSortedUnique ==
    LET ks == ConfigKeys(conf) IN
    /\ \A i, j \in DOMAIN ks : i < j => Rank(ks[i]) <= Rank(ks[j])
    /\ \A k \in BuiltinKeys \cup (DOMAIN conf.m \ configIgnored) :
          \E i \in DOMAIN ks : ks[i] = k
    /\ \A i, j \in DOMAIN ks : i # j => ks[i] # ks[j]

\* The leaves of a map with their dotted paths.
RECURSIVE Flatten(_, _)
Flatten(path, m) ==
    UNION {LET k == IF path = "" THEN k0 ELSE path \o "." \o k0 IN
           IF m[k0].t = "map" THEN Flatten(k, m[k0].mp)
           ELSE {[key |-> k, val |-> m[k0]]}
           : k0 \in DOMAIN m}

Supported(v) ==
    v.t \in {"bool", "string", "int", "int64", "int32", "uint", "uint64",
             "uint32", "float64", "float32"}

\* What calling the setter once per leaf, in every order, can leave.
LeafCalls(before, leaves) == {mergeApply(before, q) : q \in Orders(leaves)}

\* C37 as stated: a merge leaves what calling the non-persisting setter once
\* per leaf of the map, named by its dotted path, leaves; the order of the
\* calls makes no difference when the paths are distinct; a leaf of an
\* unsupported type makes the call panic.
C37_MergeAnyOrderOrPanic ==
    mrg.n > 0 =>
        LET leaves == Flatten("", mrg.m) IN
        /\ conf \in LeafCalls(mrg.before, leaves)
        /\ conf.panicked <=> \E l \in leaves : ~Supported(l.val)
        /\ (/\ ~conf.panicked
            /\ \A l1, l2 \in leaves : l1 # l2 => l1.key # l2.key)
           => LeafCalls(mrg.before, leaves) = {conf}

\* C37, amended: as above, but the order makes no difference only when no
\* two paths name the same key after aliases are resolved, and a leaf of an
\* unsupported type makes the call panic unless its path is an ignored key,
\* for which the leaf is skipped whatever its type.
C37_MergeFlattens ==
    mrg.n > 0 =>
        LET leaves == Flatten("", mrg.m) IN
        /\ conf \in LeafCalls(mrg.before, leaves)
        /\ conf.panicked <=>
              \E l \in leaves : ~Supported(l.val) /\ l.key \notin configIgnored
        /\ (/\ ~conf.panicked
            /\ \A l1, l2 \in leaves :
                  l1 # l2 => resolveAlias(l1.key) # resolveAlias(l2.key))
           => LeafCalls(mrg.before, leaves) = {conf}

\* C37 witness: a third merge, of nested maps with three leaves, changed
\* the name left by an earlier one, after the chat was disabled by a path
\* of three parts.
C37_Witness ==
    /\ mrg.n = 3
    /\ Cardinality(Flatten("", mrg.m)) = 3
    /\ ~conf.panicked
    /\ conf.Name = "a" /\ mrg.before.Name = "b"
    /\ ~conf.GlobalChat
    /\ UnknownKey \in DOMAIN conf.m

\* What the claims expect of a getter for a stored value v.
AsNumber(v, ofString, cast(_)) ==
    CASE v.t = "bool" -> IF v.b THEN 1 ELSE 0
      [] v.t = "string" -> ofString
      [] OTHER -> cast(v.n)

Same(n) == n

FirstChar(s) == IF Chars(s) = <<>> THEN "" ELSE Head(Chars(s))

\* The result of a numeric parse: the number; 0 if the string is no number;
\* the nearest value of the type if the number is out of its range.
Parsed(p, lo, hi, s) ==
    CASE p.err = "nil" -> p.v
      [] p.err = "syntax" -> 0
      [] p.err = "range" -> IF FirstChar(s) = "-" THEN lo ELSE hi

Formatted(v) ==
    CASE v.t = "string" -> v.s
      [] v.t = "bool" -> IF v.b THEN "true" ELSE "false"
      [] OTHER -> ToString(v.n)

\* The getters return ok for the key, with the values expected of them.
Coerced(int, uint, float, bool) ==
    LET v == got.val IN
    /\ "string" \in got.asked => got.str = [v |-> Formatted(v), ok |-> TRUE]
    /\ "bool" \in got.asked =>
          got.bool = [v |-> CASE v.t = "bool" -> v.b
                               [] v.t = "string" -> bool
                               [] OTHER -> v.n # 0,
                      ok |-> TRUE]
    /\ "int" \in got.asked =>
          got.int = [v |-> AsNumber(v, int, toInt64), ok |-> TRUE]
    /\ "uint" \in got.asked =>
          got.uint = [v |-> AsNumber(v, uint, toUint64), ok |-> TRUE]
    /\ "float" \in got.asked =>
          got.float = [v |-> AsNumber(v, float, Same), ok |-> TRUE]

\* The typed getter of a built-in key's own type returns ok, set or not; for
\* a key that is not built in and was never set every getter returns the
\* zero value and false.
OwnTypeAndAbsent ==
    /\ (got.key = "name" /\ "string" \in got.asked) => got.str.ok
    /\ (got.key = ConfigZlibLevel /\ "int" \in got.asked) => got.int.ok
    /\ (got.key = ConfigChatGlobalEnabled /\ "bool" \in got.asked) => got.bool.ok
    /\ (got.pc = "ask" /\ got.key = UnknownKey /\ ~got.set) =>
          /\ got.str = [v |-> "", ok |-> FALSE]
          /\ got.bool = [v |-> FALSE, ok |-> FALSE]
          /\ got.int = [v |-> 0, ok |-> FALSE]
          /\ got.uint = [v |-> 0, ok |-> FALSE]
          /\ got.float = [v |-> 0, ok |-> FALSE]

\* C36 as stated: the typed getters coerce the value stored for a key that
\* is not built in, a string that fails to parse giving the zero value; an
\* absent key gives (zero, false); a built-in key's own getter gives ok.
C36_ParseFailureGivesZero ==
    /\ OwnTypeAndAbsent
    /\ (got.key = UnknownKey /\ got.set) =>
          LET s == got.val.s IN
          Coerced(IF ParseInt(s).err = "nil" THEN ParseInt(s).v ELSE 0,
                  IF ParseUint(s).err = "nil" THEN ParseUint(s).v ELSE 0,
                  IF ParseFloat(s).err = "nil" THEN ParseFloat(s).v ELSE 0,
                  IF ParseBool(s).err = "nil" THEN ParseBool(s).v ELSE FALSE)

\* C36, amended: as above, but a string holding a number out of the range
\* of the getter's type gives the nearest value of the type (the largest or
\* smallest int64, the largest uint64), not zero; only a string that is no
\* number gives zero.
C36_GettersCoerce ==
    /\ OwnTypeAndAbsent
    /\ (got.key = UnknownKey /\ got.set) =>
          LET s == got.val.s IN
          Coerced(Parsed(ParseInt(s), MinInt64, MaxInt64, s),
                  Parsed(ParseUint(s), 0, MaxUint64, s),
                  Parsed(ParseFloat(s), 0, 0, s),
                  IF ParseBool(s).err = "nil" THEN ParseBool(s).v ELSE FALSE)

\* C36 witness: every getter was asked for a key holding a string with a
\* number too large for an integer.
C36_Witness ==
    /\ got.key = UnknownKey /\ got.val = VStr("9999")
    /\ got.asked = Getters
    /\ got.int = [v |-> MaxInt64, ok |-> TRUE]
    /\ got.uint = [v |-> MaxUint64, ok |-> TRUE]
    /\ got.float = [v |-> 9999, ok |-> TRUE]
    /\ got.str = [v |-> "9999", ok |-> TRUE]

(***************************************************************************)
(*        The IRC bridge: ServeIRC, ircHandshake, ircAccept, ircPeer       *)
(*                                                                         *)
(* Every connection is served by its own task.  The roster operations      *)
(* (nameAvailable, reserveName, acceptPeer, leave, Peers, listPeers) are   *)
(* atomic, each under the roster lock; a task's reads and writes on its    *)
(* own connection before it is in the roster are seen by nobody else.      *)
(***************************************************************************)

ITasks == {"t1", "t2"}
Nicks == {"a", "b"}
InvalidNick == "$bad"
ircHubChan == "#hub"
HubPref == "hub"

\* Client messages a run may add beyond the ones a login needs (another
\* NICK after a 433, PINGs, chat lines, unknown commands).
MaxExtra == 2

\* An IRC message as written: command, name of the prefix, first parameter.
Msg(cmd, who, to) == [cmd |-> cmd, who |-> who, to |-> to]

Numerics ==
    <<Msg("001", HubPref, ""), Msg("002", HubPref, ""), Msg("003", HubPref, ""),
      Msg("004", HubPref, ""), Msg("005", HubPref, "")>>

NewTask ==
    [pc |-> "call",        \* position in ServeIRC / ircHandshake / ircAccept
     name |-> "",          \* `name`, "" until the first NICK
     deadline |-> FALSE,   \* a read deadline is armed on the connection
     unbind |-> "none",    \* `unbind`: none, nil (reserveName refused),
                           \* live, or called
     nUnbind |-> 0,        \* history: calls of unbind()
     nUser |-> 0,          \* history: USER commands read
     usr |-> "",           \* history: what h.getUser found for the name
     secure |-> FALSE,     \* history: cinfo.Secure, for a registered name
     welcomed |-> FALSE,   \* history: a welcome numeric was written
     joined |-> "",        \* the JOIN read by waitJoin
     snapshot |-> {},      \* h.Peers() as read for the synthetic JOINs
     notify |-> {},        \* `notify`: the peers to tell
     accepted |-> FALSE,   \* history: acceptPeer ran
     closed |-> FALSE,     \* BasePeer is closed
     nLeave |-> 0,         \* history: runs of hub.leave for the peer
     nochat |-> FALSE,     \* history: it wrote to #hub while chat was disabled
     ret |-> "none"]       \* what ServeIRC returned

\* h.Peers() / h.listPeers(): the online peers.
Peers == {byName[n] : n \in DOMAIN byName}

\* h.nameAvailable(name, nil): neither reserved nor online.
nameAvailable(name) == name \notin reserved /\ name \notin DOMAIN byName

\* A faulty variant: only the QUIT path closes the peer
ServeExit_NoDefer(kind) == IF kind = "quit" THEN "close" ELSE "done"

\* `defer peer.Close()`: where ServeIRC goes when its loop returns.
ServeExit(kind) == "close"

\* h.reserveName(name, nil, nil) under the roster lock: ok unless the name is
\* reserved or online.
reserveName(name) == name \notin reserved /\ name \notin DOMAIN byName

\* A faulty variant: the handshake goes on after reserveName has failed
reserveOK_Ignored(ok) == TRUE

\* `unbind, ok = h.reserveName(name, nil, nil); if ok { break }`
reserveOK(ok) == ok

\* A faulty variant: ircAccept accepts a JOIN for any channel
joinAccepted_AnyChannel(m) == m \in {"JOIN#hub", "JOIN#other"}

\* The checks of a JOIN in ircAccept: one parameter, equal to ircHubChan.
joinAccepted(m) == m = "JOIN#hub"

\* A faulty variant: the release function is not called when ircAccept fails
acceptFailUnbinds_Never == FALSE

\* `err = h.ircAccept(peer); if err != nil { unbind(); return nil, err }`
acceptFailUnbinds == TRUE

\* A faulty variant: the synthetic JOINs are sent before the numerics
welcomeFirst_UserList == "userlist"

\* ircAccept starts with the numerics 001..005.
welcomeFirst == "welcome"

\* A step of task t: its locals become r and the connections' logs s.  The
\* log of a connection is dropped when its handler has returned.
IStepX(t, r, s, x) ==
    /\ irc' = [irc EXCEPT ![t] = r]
    /\ sent' = IF r.pc = "done" THEN [s EXCEPT ![t] = <<>>] ELSE s
    /\ extra' = extra + x
    /\ UNCHANGED <<cvars, nvars, avars, dvars, evars, hvars, pvars, rvars, gvars, mvars, yvars>>

IStep(t, r, s) == IStepX(t, r, s, 0)

\* The connection of t after msgs have been written to it.
Wrote(t, msgs) == [sent EXCEPT ![t] = @ \o msgs]

\* ServeIRC has returned: its locals are dead.  What is kept is the history
\* the properties read.
Returned(r, ret) ==
    [NewTask EXCEPT !.pc = "done", !.ret = ret, !.name = r.name,
                    !.unbind = r.unbind, !.nUnbind = r.nUnbind,
                    !.nUser = r.nUser,
                    !.usr = r.usr, !.secure = r.secure,
                    !.welcomed = r.welcomed,
                    !.joined = r.joined, !.accepted = r.accepted, !.closed = r.closed,
                    !.nLeave = r.nLeave, !.nochat = r.nochat]

\* ircHandshake returns (nil, err): ServeIRC returns err.
Failed(r, err) == Returned(r, err)

\* unbind(): the release function returned by reserveName.
Unbound(r) == [r EXCEPT !.unbind = "called", !.nUnbind = @ + 1]

\* The ConnInfo pointers ServeIRC is called with.
ConnInfos == {"nil", "info"}

\* The top of ServeIRC: `if cinfo.TLSVers != 0` reads through the pointer
\* before `if cinfo == nil` replaces it.
serveEntry(cinfo) == IF cinfo = "nil" THEN "panic" ELSE "nick"

\* ServeIRC is called: the counters, the TLS counter, the nil check.  A task
\* at "panic" has dereferenced a nil pointer and returns nothing.
Enter(t) ==
    /\ irc[t].pc = "call"
    /\ \E cinfo \in ConnInfos :
          IStep(t, [irc[t] EXCEPT !.pc = serveEntry(cinfo)], sent)
    /\ UNCHANGED <<reserved, byName>>

\* A faulty variant: USER is expected after every NICK
expectUser_Always(name) == TRUE

\* `if name == "" { // first time we expect the USER command as well`
expectUser(name) == name = ""

\* The top of the handshake loop: arm the deadline, read NICK and, the first
\* time, USER; validate the name.
ReadNick(t) ==
    /\ irc[t].pc = "nick"
    /\ \E m \in {"err", "other"} \cup
                (IF irc[t].name = "" \/ extra < MaxExtra
                 THEN Nicks \cup {InvalidNick} ELSE {}),
          u \in {"USER", "err"} :
        LET r0 == [irc[t] EXCEPT !.deadline = TRUE]
            x == IF r0.name = "" THEN 0 ELSE 1
            r == IF expectUser(r0.name) THEN [r0 EXCEPT !.nUser = @ + 1] ELSE r0 IN
        IF m \in {"err", "other"} THEN IStep(t, Failed(r0, "errNick"), sent)
        ELSE IF expectUser(r0.name) /\ u # "USER"
             THEN IStep(t, Failed(r0, "errUser"), sent)
        ELSE IF m = InvalidNick
             THEN IStepX(t, Failed([r EXCEPT !.name = m], "errName"), sent, x)
        ELSE IStepX(t, [r EXCEPT !.name = m, !.pc = "avail"], sent, x)
    /\ UNCHANGED <<reserved, byName>>

\* The answer to a name that is taken: numeric 433 (a failing write is
\* ignored: the next read fails), then `continue`.
NickTaken(t, r) ==
    IStep(t, [r EXCEPT !.pc = "nick"],
          Wrote(t, <<Msg("433", HubPref, irc[t].name)>>))

\* `if !h.nameAvailable(name, nil) { write 433; continue }`
CheckAvail(t) ==
    /\ irc[t].pc = "avail"
    /\ IF nameAvailable(irc[t].name)
       THEN IStep(t, [irc[t] EXCEPT !.pc = "reserve"], sent)
       ELSE NickTaken(t, irc[t])
    /\ UNCHANGED <<reserved, byName>>

\* Lines 642-651: reserve the name and leave the loop, or answer 433 and
\* start over.
Reserve(t) ==
    /\ irc[t].pc = "reserve"
    /\ IF reserveOK(reserveName(irc[t].name))
       THEN /\ reserved' = reserved \cup {irc[t].name}
            /\ IStep(t, [irc[t] EXCEPT !.pc = "getuser", !.unbind = "live"], sent)
       ELSE /\ NickTaken(t, [irc[t] EXCEPT !.unbind = "nil"])
            /\ UNCHANGED reserved
    /\ UNCHANGED byName

\* A faulty variant: a registered user on a secure link is let in
loginRefused_RegisteredOK(res, sec, private) ==
    IF res = "err" THEN "errLookup"
    ELSE IF res = "registered" /\ ~sec THEN "errConnInsecure"
    ELSE IF res # "registered" /\ private THEN "errServerIsPrivate"
    ELSE ""

\* Lines 654-670: the error the handshake ends with after h.getUser, "" if
\* it goes on.
loginRefused(res, sec, private) ==
    IF res = "err" THEN "errLookup"
    ELSE IF res = "registered" /\ ~sec THEN "errConnInsecure"
    ELSE IF res = "registered" THEN "errNoPassword"
    ELSE IF private THEN "errServerIsPrivate"
    ELSE ""

\* Lines 654-672: user lookup, registered users, private hub; then the read
\* deadline is lifted.
GetUser(t) ==
    /\ irc[t].pc = "getuser"
    /\ \E res \in {"err", "registered", "none"}, sec \in BOOLEAN :
        LET r == [irc[t] EXCEPT !.usr = res,
                               !.secure = sec /\ res = "registered"]
            err == loginRefused(res, sec, conf.Private) IN
        IF err # ""
        THEN /\ reserved' = reserved \ {r.name}
             /\ IStep(t, Failed(Unbound(r), err), sent)
        ELSE /\ IStep(t, [r EXCEPT !.deadline = FALSE, !.pc = welcomeFirst], sent)
             /\ UNCHANGED reserved
    /\ UNCHANGED byName

\* ircAccept returned the error err after the writes that gave the logs s.
AcceptFailed(t, r, err, s) ==
    IF acceptFailUnbinds
    THEN /\ reserved' = reserved \ {r.name}
         /\ IStep(t, Failed(Unbound(r), err), s)
    ELSE /\ UNCHANGED reserved
         /\ IStep(t, Failed(r, err), s)

\* The five numerics; the first failing write ends ircAccept.
Welcome(t) ==
    /\ irc[t].pc = "welcome"
    /\ \E k \in 0..5 :
        LET s == Wrote(t, SubSeq(Numerics, 1, k))
            r == [irc[t] EXCEPT !.welcomed = @ \/ k > 0] IN
        IF k < 5 THEN AcceptFailed(t, r, "errWrite", s)
        ELSE /\ IStep(t, [r EXCEPT !.pc = "waitjoin"], s)
             /\ UNCHANGED reserved
    /\ UNCHANGED byName

\* The waitJoin loop; after a JOIN for #hub the JOIN is echoed.
WaitJoin(t) ==
    /\ irc[t].pc = "waitjoin"
    /\ \E m \in {"eof", "JOIN#hub", "JOIN#other", "JOIN"} \cup
                (IF irc[t].deadline THEN {"timeout"} ELSE {}) \cup
                (IF extra < MaxExtra THEN {"PING", "other"} ELSE {}),
          wok \in BOOLEAN :
        CASE m \in {"eof", "timeout"} ->
                AcceptFailed(t, irc[t], "errRead", sent)
          [] m = "PING" /\ wok ->
                /\ IStepX(t, irc[t], Wrote(t, <<Msg("PONG", "", "")>>), 1)
                /\ UNCHANGED reserved
          [] m = "PING" /\ ~wok ->
                AcceptFailed(t, irc[t], "errWrite", sent)
          [] m = "other" ->
                /\ IStepX(t, irc[t], sent, 1)
                /\ UNCHANGED reserved
          [] m \in {"JOIN#hub", "JOIN#other", "JOIN"} /\ ~joinAccepted(m) ->
                AcceptFailed(t, [irc[t] EXCEPT !.joined = m], "errJoin", sent)
          [] m \in {"JOIN#hub", "JOIN#other", "JOIN"} /\ joinAccepted(m) /\ wok ->
                /\ IStep(t, [irc[t] EXCEPT !.joined = m,
                                           !.pc = IF welcomeFirst = "welcome"
                                                  THEN "userlist" ELSE "welcome"],
                         Wrote(t, <<Msg("JOIN", irc[t].name, ircHubChan)>>))
                /\ UNCHANGED reserved
          [] OTHER ->
                AcceptFailed(t, [irc[t] EXCEPT !.joined = m], "errWrite", sent)
    /\ UNCHANGED byName

\* `peer.PeersJoin(&PeersJoinEvent{Peers: h.Peers()})`: one JOIN per online
\* peer, until a write fails.
UserList(t) ==
    /\ irc[t].pc = "userlist"
    /\ \E q \in Orders(Peers), k \in 0..Cardinality(Peers) :
        LET r == [irc[t] EXCEPT !.snapshot = Peers]
            s == Wrote(t, [i \in 1..k |-> Msg("JOIN", irc[q[i]].name, ircHubChan)]) IN
        IF k < Cardinality(Peers) THEN AcceptFailed(t, r, "errWrite", s)
        ELSE /\ IStep(t, [r EXCEPT !.pc = IF welcomeFirst = "welcome"
                                         THEN "accept" ELSE "waitjoin"], s)
             /\ UNCHANGED reserved
    /\ UNCHANGED byName

\* The roster after h.acceptPeer: the reservation of the name has become the
\* entry of the peer.
acceptPeer(t) ==
    [n \in DOMAIN byName \cup {irc[t].name} |->
        IF n = irc[t].name THEN t ELSE byName[n]]

\* The roster after h.leave(p, sid, nil): the peer's entry is gone if it was
\* the peer's.
leave(t) ==
    [n \in {k \in DOMAIN byName : byName[k] # t} |-> byName[n]]

\* h.acceptPeer(peer, nil, func() { notify = h.listPeers() })
Accept(t) ==
    /\ irc[t].pc = "accept"
    /\ reserved' = reserved \ {irc[t].name}
    /\ byName' = acceptPeer(t)
    /\ IStep(t, [irc[t] EXCEPT !.pc = "bcast", !.accepted = TRUE,
                               !.notify = Peers \cup {t}], sent)

\* p.PeersJoin / p.PeersLeave / p.ChatMsg / p.PrivateMsg with message m on
\* every p of the list that is still open.
Broadcast(list, m) ==
    [p \in ITasks |->
        IF p \in list /\ ~irc[p].closed THEN Append(sent[p], m) ELSE sent[p]]

\* h.broadcastUserJoin(peer, notify); ircHandshake returns the peer.
BroadcastJoin(t) ==
    /\ irc[t].pc = "bcast"
    /\ IStep(t, [irc[t] EXCEPT !.pc = "onjoined", !.notify = {}, !.snapshot = {}],
             Broadcast(irc[t].notify, Msg("JOIN", irc[t].name, ircHubChan)))
    /\ UNCHANGED <<reserved, byName>>

\* `if !h.callOnJoined(peer) { return nil }`
OnJoined(t) ==
    /\ irc[t].pc = "onjoined"
    /\ \E ok \in BOOLEAN :
        IF ok THEN IStep(t, [irc[t] EXCEPT !.pc = "serve"], sent)
        ELSE IStep(t, [irc[t] EXCEPT !.pc = ServeExit("onjoined"), !.ret = "nil"], sent)
    /\ UNCHANGED <<reserved, byName>>

\* ServeIRC returns ret from its loop.
ExitFrom(t, r, kind, ret) ==
    IStep(t, IF ServeExit(kind) = "done" THEN Returned(r, ret)
             ELSE [r EXCEPT !.pc = ServeExit(kind), !.ret = ret], sent)

Exit(t, kind, ret) == ExitFrom(t, irc[t], kind, ret)

\* A faulty variant: with chat disabled the message is dropped and the
\* session goes on
hubChat_Skips(enabled) == IF enabled THEN "send" ELSE "skip"

\* `if !h.getGlobalChatEnabled() { return nil }` before globalChat.SendChat
hubChat(enabled) == IF enabled THEN "send" ELSE "return"

\* One round of the read loop of ServeIRC.
Serve(t) ==
    /\ irc[t].pc = "serve"
    /\ \E m \in {"eof", "err", "PRIVMSGbad", "QUIT"} \cup
                (IF extra < MaxExtra
                 THEN {"PING", "other", ircHubChan} \cup Nicks ELSE {}),
          wok \in BOOLEAN :
        LET chat(to) == Msg("PRIVMSG", irc[t].name, to) IN
        CASE m = "eof" -> Exit(t, "eof", "nil")
          [] m = "err" -> Exit(t, "err", "errRead")
          [] m = "PING" /\ wok ->
                IStepX(t, irc[t], Wrote(t, <<Msg("PONG", "", "")>>), 1)
          [] m = "PING" /\ ~wok -> Exit(t, "write", "errWrite")
          [] m = "PRIVMSGbad" -> Exit(t, "privmsg", "errChat")
          [] m = ircHubChan /\ hubChat(conf.GlobalChat) = "return" ->
                ExitFrom(t, [irc[t] EXCEPT !.nochat = TRUE], "nochat", "nil")
          [] m = ircHubChan /\ hubChat(conf.GlobalChat) = "skip" ->
                IStepX(t, [irc[t] EXCEPT !.nochat = TRUE], sent, 1)
          [] m = ircHubChan /\ hubChat(conf.GlobalChat) = "send" ->
                \* globalChat.SendChat: ChatMsg on every member but the sender
                IStepX(t, irc[t], Broadcast(Peers \ {t}, chat(ircHubChan)), 1)
          [] m \in Nicks ->
                \* h.PeerByName(dst), then dst.PrivateMsg
                IStepX(t, irc[t],
                       Broadcast(IF m \in DOMAIN byName THEN {byName[m]} ELSE {},
                                 chat(m)), 1)
          [] m = "QUIT" -> Exit(t, "quit", "nil")
          [] OTHER -> IStepX(t, irc[t], sent, 1)
    /\ UNCHANGED <<reserved, byName>>

\* ircPeer.Close: closeWith runs the closers once: conn.Close, then
\* hub.leave(p, sid, nil), which removes the peer if it is the current entry.
ClosePeer(t) ==
    /\ irc[t].pc = "close"
    /\ IF irc[t].closed
       THEN /\ IStep(t, Returned(irc[t], irc[t].ret), sent)
            /\ UNCHANGED byName
       ELSE /\ byName' = leave(t)
            /\ IStep(t, [irc[t] EXCEPT !.pc = "leavebcast", !.closed = TRUE,
                                       !.nLeave = @ + 1,
                                       !.notify = Peers \ {t}],
                     [sent EXCEPT ![t] = <<>>])
    /\ UNCHANGED reserved

\* The leave event goes to the peers that remain; Close, and with it
\* ServeIRC, returns.
BroadcastLeave(t) ==
    /\ irc[t].pc = "leavebcast"
    /\ IStep(t, Returned(irc[t], irc[t].ret),
             Broadcast(irc[t].notify, Msg("PART", irc[t].name, ircHubChan)))
    /\ UNCHANGED <<reserved, byName>>

NextIRC ==
    \E t \in ITasks :
        \/ Enter(t)
        \/ ReadNick(t)
        \/ CheckAvail(t)
        \/ Reserve(t)
        \/ GetUser(t)
        \/ Welcome(t)
        \/ WaitJoin(t)
        \/ UserList(t)
        \/ Accept(t)
        \/ BroadcastJoin(t)
        \/ OnJoined(t)
        \/ Serve(t)
        \/ ClosePeer(t)
        \/ BroadcastLeave(t)

InitIRC ==
    /\ reserved = {}
    /\ byName = <<>>
    /\ irc = [t \in ITasks |-> NewTask]
    /\ sent = [t \in ITasks |-> <<>>]
    /\ extra = 0

\* The configuration a hub serving IRC may have.
InitIRCConf ==
    /\ private0 \in BOOLEAN
    /\ \E g \in BOOLEAN :
          conf = setConfigBool(NewConf(private0), ConfigChatGlobalEnabled, g)
    /\ cfgTried = {}
    /\ cfgKeys = {}
    /\ cfgLast = NoCall

(***************************************************************************)
(*                    Properties of the IRC handshake                      *)
(***************************************************************************)

\* The positions at which a handshake holds the reservation it made.
Reserving == {"getuser", "welcome", "waitjoin", "userlist", "accept"}

\* The positions of an accepted peer that is in the roster.
Online == {"bcast", "onjoined", "serve", "close"}

Other(t) == ITasks \ {t}

JoinOf(name) == Msg("JOIN", name, ircHubChan)

Has(s, m) == \E i \in DOMAIN s : s[i] = m

RECURSIVE SkipCmd(_, _)
SkipCmd(s, cmd) ==
    IF s # <<>> /\ Head(s).cmd = cmd THEN SkipCmd(Tail(s), cmd) ELSE s

\* What connection t was sent after the last refused nickname.
Greeting(t) == SkipCmd(sent[t], "433")

\* What follows the five numerics and the PONGs of the JOIN wait.
AfterWelcome(t) ==
    SkipCmd(SubSeq(Greeting(t), 6, Len(Greeting(t))), "PONG")

\* C2: after reserveName has succeeded the release function is called exactly
\* once on every path on which the handshake fails (user lookup, registered
\* user, private hub, any error of ircAccept), and never when it succeeds.
C2_ReleaseExactlyOnce ==
    \A t \in ITasks :
        LET r == irc[t] IN
        /\ r.nUnbind <= 1
        /\ r.nUnbind = 1 <=> r.unbind = "called"
        /\ r.pc \in Reserving => r.unbind = "live"
        /\ r.accepted => r.unbind = "live"
        /\ (r.pc = "done" /\ ~r.accepted
              /\ r.ret \notin {"errNick", "errUser", "errName"})
           => r.unbind = "called"
        /\ r.unbind = "called" => r.pc = "done" /\ ~r.accepted

C2_Witness ==
    \E t \in ITasks : \E u \in Other(t) :
        /\ irc[t].ret = "errWrite" /\ ~irc[t].accepted /\ irc[t].nUnbind = 1
        /\ irc[u].accepted /\ irc[u].pc = "serve" /\ irc[u].nUnbind = 0

\* C3: of the handshakes that ask for one nickname at most one holds the
\* reservation or the roster entry; nameAvailable is a hint and reserveName
\* decides; a handshake that lost was sent 433 and holds no reservation.
C3_OneOwnerPerNick ==
    /\ \A t \in ITasks : \A u \in Other(t) :
          (irc[t].pc \in Reserving \cup Online /\ irc[u].pc \in Reserving \cup Online)
          => irc[t].name # irc[u].name
    /\ reserved = {irc[t].name : t \in {u \in ITasks : irc[u].pc \in Reserving}}
    /\ \A t \in ITasks :
          irc[t].pc \in Online =>
              irc[t].name \in DOMAIN byName /\ byName[irc[t].name] = t
    /\ \A t \in ITasks :
          (irc[t].pc = "nick" /\ irc[t].name # "") =>
              /\ sent[t] # <<>>
              /\ sent[t][Len(sent[t])] = Msg("433", HubPref, irc[t].name)
              /\ irc[t].unbind \in {"none", "nil"}

C3_Witness ==
    \E t \in ITasks : \E u \in Other(t) :
        /\ irc[t].pc = "nick" /\ irc[t].unbind = "nil"
        /\ irc[u].name = irc[t].name
        /\ irc[u].pc = "serve"

\* C4: a successful handshake writes, in this order, the numerics 001 to
\* 005, the PONGs of the JOIN wait, the echo of the client's JOIN and one
\* JOIN for every peer that h.Peers() returned; only then the peer enters the
\* roster, and only then its JOIN reaches any other connection.
C4_HandshakeOrder ==
    \A t \in ITasks :
        LET r == irc[t] IN
        /\ r.pc = "welcome" => Greeting(t) = <<>>
        /\ r.pc \in {"waitjoin", "userlist", "accept"} \cup Online =>
              /\ Len(Greeting(t)) >= 5
              /\ SubSeq(Greeting(t), 1, 5) = Numerics
        /\ r.pc = "waitjoin" => AfterWelcome(t) = <<>>
        /\ r.pc = "userlist" => AfterWelcome(t) = <<JoinOf(r.name)>>
        /\ r.pc \in {"accept"} \cup Online =>
              /\ AfterWelcome(t) # <<>>
              /\ Head(AfterWelcome(t)) = JoinOf(r.name)
        /\ r.pc = "accept" =>
              LET list == Tail(AfterWelcome(t)) IN
              /\ Len(list) = Cardinality(r.snapshot)
              /\ {list[i] : i \in DOMAIN list} =
                     {JoinOf(irc[p].name) : p \in r.snapshot}
        /\ r.pc \in {"nick", "avail", "reserve"} \cup Reserving =>
              /\ ~r.accepted
              /\ t \notin Peers
              /\ r.pc \in Reserving =>
                    \A p \in Other(t) : ~Has(sent[p], JoinOf(r.name))

C4_Witness ==
    \E t \in ITasks :
        /\ irc[t].pc = "bcast"
        /\ irc[t].snapshot # {}
        /\ Has(sent[t], Msg("PONG", "", ""))
        /\ Head(sent[t]).cmd = "433"

\* C5: a peer that has joined knows every other peer that is online, also
\* one that was accepted between its reading of h.Peers() and its own
\* acceptance: it was sent a JOIN for it.
C5_UserListComplete ==
    \A t \in ITasks : \A p \in Other(t) :
        (irc[t].pc \in {"onjoined", "serve"} /\ irc[p].pc \in {"onjoined", "serve"})
        => Has(sent[t], JoinOf(irc[p].name))

\* C6: while a handshake holds a reservation and its peer is not accepted,
\* its reads are under the deadline, so that a silent client cannot keep
\* the nickname.
C6_DeadlineWhileReserved ==
    \A t \in ITasks : irc[t].pc \in Reserving => irc[t].deadline

\* C7: a JOIN for another channel, or with a wrong number of parameters, ends
\* the handshake with an error: the peer is never accepted, its JOIN reaches
\* nobody and its reservation is released.
C7_BadJoinRejected ==
    \A t \in ITasks :
        irc[t].joined \in {"JOIN#other", "JOIN"} =>
            /\ irc[t].pc = "done" /\ irc[t].ret = "errJoin"
            /\ ~irc[t].accepted
            /\ t \notin Peers
            /\ irc[t].nUnbind = 1
            /\ irc[t].name \in reserved =>
                  \E u \in Other(t) : irc[u].pc \in Reserving
                                      /\ irc[u].name = irc[t].name
            /\ \A p \in Other(t) :
                  irc[p].name # irc[t].name => ~Has(sent[p], JoinOf(irc[t].name))

C7_Witness ==
    \E t \in ITasks : \E u \in Other(t) :
        /\ irc[t].joined = "JOIN#other" /\ irc[t].ret = "errJoin"
        /\ irc[t].name \notin reserved
        /\ irc[u].pc = "serve" /\ irc[u].name # irc[t].name

\* C33: ServeIRC called with a nil ConnInfo puts one made of the
\* connection's addresses in its place and goes on to the handshake; it does
\* not fail before that.
C33_NilConnInfoServed == \A t \in ITasks : irc[t].pc # "panic"

\* C34: while global chat is disabled a PRIVMSG to #hub reaches no peer, and
\* ServeIRC returns nil for its sender, who is closed and leaves the roster.
C34_DisabledChatEndsSession ==
    /\ ~conf.GlobalChat =>
          \A p \in ITasks : \A i \in DOMAIN sent[p] :
              ~(sent[p][i].cmd = "PRIVMSG" /\ sent[p][i].to = ircHubChan)
    /\ \A t \in ITasks :
          irc[t].nochat =>
              /\ ~conf.GlobalChat
              /\ irc[t].pc \in {"close", "leavebcast", "done"}
              /\ irc[t].ret = "nil"
              /\ irc[t].pc \in {"leavebcast", "done"} =>
                    irc[t].closed /\ irc[t].nLeave = 1 /\ t \notin Peers

\* C34 witness: with chat disabled a peer wrote to #hub and its session
\* ended, while the other peer stays online and was told of the leave.
C34_Witness ==
    \E t \in ITasks : \E u \in Other(t) :
        /\ irc[t].nochat /\ irc[t].pc = "done" /\ irc[t].closed
        /\ irc[u].pc = "serve"
        /\ Has(sent[u], Msg("PART", irc[t].name, ircHubChan))

\* The 433 answers on the connection of t.
Refusals(t) == {i \in DOMAIN sent[t] : sent[t][i].cmd = "433"}

\* C27: a nick collision is answered with 433 and the handshake goes on
\* with another NICK, as often as it takes; USER is read once, after the
\* first NICK, and between two attempts the connection holds no reservation.
C27_NickRetry ==
    \A t \in ITasks :
        /\ irc[t].nUser <= 1
        /\ (irc[t].name # "" /\ irc[t].ret # "errUser") => irc[t].nUser = 1
        /\ (irc[t].pc = "nick" /\ irc[t].name # "") =>
              /\ sent[t] # <<>>
              /\ sent[t][Len(sent[t])] = Msg("433", HubPref, irc[t].name)
              /\ irc[t].unbind \in {"none", "nil"}
              /\ irc[t].nUnbind = 0
        /\ (irc[t].pc # "done" /\ ~irc[t].welcomed) =>
              \A i \in DOMAIN sent[t] : sent[t][i].cmd = "433"

\* C27 witness: a connection was refused a nick twice and then reserved one,
\* having sent USER once.
C27_Witness ==
    \E t \in ITasks :
        /\ Cardinality(Refusals(t)) = 2
        /\ irc[t].pc = "getuser"
        /\ irc[t].unbind = "live"
        /\ irc[t].nUser = 1

\* C18: a handshake for the name of a registered user, or on a private hub,
\* ends with the error of its case (insecure connection, password login not
\* supported, server is private) before any welcome numeric is written: the
\* peer is never accepted and the reservation is released.
C18_NoRegisteredOrPrivateLogin ==
    \A t \in ITasks :
        (irc[t].usr = "registered" \/ (irc[t].usr = "none" /\ conf.Private)) =>
            /\ irc[t].pc = "done"
            /\ irc[t].ret = IF irc[t].usr = "none" THEN "errServerIsPrivate"
                            ELSE IF irc[t].secure THEN "errNoPassword"
                            ELSE "errConnInsecure"
            /\ ~irc[t].accepted /\ t \notin Peers
            /\ ~irc[t].welcomed
            /\ irc[t].nUnbind = 1
            /\ irc[t].name \notin reserved \/
                  \E u \in Other(t) : irc[u].pc \in Reserving
                                      /\ irc[u].name = irc[t].name

C18_Witness ==
    \E t \in ITasks : \E u \in Other(t) :
        /\ irc[t].ret = "errNoPassword" /\ irc[t].secure
        /\ irc[u].ret = "errServerIsPrivate"
        /\ reserved = {}

\* C8: however ServeIRC returns, a peer that was accepted has been closed
\* and has left the roster, once.
C8_ClosedOnEveryExit ==
    \A t \in ITasks :
        irc[t].accepted =>
            /\ irc[t].nLeave <= 1
            /\ irc[t].pc = "done" =>
                  irc[t].closed /\ irc[t].nLeave = 1 /\ t \notin Peers
            /\ irc[t].pc \in Online => ~irc[t].closed /\ t \in Peers

C8_Witness ==
    \E t \in ITasks : \E u \in Other(t) :
        /\ irc[t].accepted /\ irc[t].pc = "done" /\ irc[t].ret = "errChat"
        /\ irc[t].closed
        /\ irc[u].accepted /\ irc[u].pc = "done" /\ irc[u].ret = "nil"

(***************************************************************************)
(*                    nmdc.Conn: Close, ReadMsg*, Write*                   *)
(*                                                                         *)
(* Several tasks use one Conn.  A task blocked in the network read holds   *)
(* rmu; data (or EOF) from the remote side arrives when the remote side    *)
(* chooses, a read deadline expires by itself.                             *)
(***************************************************************************)

NTasks == {"n1", "n2", "n3"}

\* Close calls a run completes, plus the calls in progress.
MaxCalls == 4

\* held: history, every acquisition of one lock by an operation that holds
\* the other; fell: history, onUnknownEncoding has run.
NewConn ==
    [wmu |-> "free", rmu |-> "free", closed |-> FALSE, open |-> TRUE,
     nWClose |-> 0, nConnClose |-> 0, nRClose |-> 0,
     held |-> {}, fell |-> FALSE]

\* An operation that holds the lock `has` takes the lock `takes`.
Nested(op, has, takes) == [op |-> op, has |-> has, takes |-> takes]

NewNTask == [pc |-> "idle", last |-> "nil", dl |-> FALSE]

NStep(t, r, c) ==
    /\ ntask' = [ntask EXCEPT ![t] = r]
    /\ conn' = c
    /\ UNCHANGED <<cvars, ivars, avars, dvars, evars, hvars, pvars, rvars, gvars, mvars, yvars>>

\* A task calls Close, ReadMsg (with or without a deadline) or WriteMsg.
Call(t) ==
    /\ ntask[t].pc = "idle"
    /\ Len(closeRets) + Cardinality({u \in NTasks : ntask[u].pc # "idle"}) < MaxCalls
    /\ \E op \in {"close_wmu", "read_rmu", "write_wmu"}, dl \in BOOLEAN :
        NStep(t, [NewNTask EXCEPT !.pc = op, !.dl = dl /\ op = "read_rmu"], conn)
    /\ UNCHANGED closeRets

\* A faulty variant: Close forgets to set c.closed
markClosed_Forgot(c) == c

\* `c.closed = true`
markClosed(c) == [c EXCEPT !.closed = TRUE]

\* `c.rmu.Lock()` in Close comes before `c.conn.Close()`: Close goes on only
\* when no reader holds rmu.
closeNeedsRmu(c) == c.rmu = "free"

\* Close, lines 248-259: take wmu; return nil when closed already; else mark
\* the Conn closed and close the writer, keeping its error.
CloseWriter(t) ==
    /\ ntask[t].pc = "close_wmu"
    /\ conn.wmu = "free"
    /\ IF conn.closed
       THEN /\ NStep(t, NewNTask, conn)
            /\ closeRets' = Append(closeRets, "nil")
       ELSE /\ \E werr \in {"nil", "errW"} :
                NStep(t, [ntask[t] EXCEPT !.pc = "close_rmu", !.last = werr],
                      [markClosed(conn) EXCEPT !.wmu = t, !.nWClose = @ + 1])
            /\ UNCHANGED closeRets

\* Close, lines 260-268: take rmu, close the connection and the reader,
\* release both locks and return the last error.
CloseReader(t) ==
    /\ ntask[t].pc = "close_rmu"
    /\ closeNeedsRmu(conn)
    /\ \E rerr \in {"nil", "errR"} :
        /\ NStep(t, NewNTask,
                 [conn EXCEPT !.wmu = "free", !.open = FALSE,
                              !.nConnClose = @ + 1, !.nRClose = @ + 1,
                              !.held = @ \cup {Nested("Close", "wmu", "rmu")}])
        /\ closeRets' = Append(closeRets,
                               IF rerr # "nil" THEN rerr ELSE ntask[t].last)

\* ReadMsg / ReadMsgTo / ReadMsgToAny: take rmu, set the deadline if one is
\* given, and enter the reader.
ReadLock(t) ==
    /\ ntask[t].pc = "read_rmu"
    /\ conn.rmu = "free"
    /\ NStep(t, [ntask[t] EXCEPT !.pc = "read_net"], [conn EXCEPT !.rmu = t])
    /\ UNCHANGED closeRets

\* The read returns (deferred: the deadline is reset, rmu released).
ReadReturns(t) ==
    /\ NStep(t, NewNTask, [conn EXCEPT !.rmu = "free"])
    /\ UNCHANGED closeRets

\* The remote side sent a message, or closed its end.
ReadData(t) ==
    /\ ntask[t].pc = "read_net"
    /\ conn.open
    /\ ReadReturns(t)

\* A faulty variant: the callback goes through SetEncoding, which locks wmu
callbackLocks_Wmu == {"wmu"}

\* The locks onUnknownEncoding takes: none.  It reads c.fallback and calls
\* c.setEncoding directly; SetEncoding and SetFallbackEncoding, which lock
\* wmu, are not on its path.
callbackLocks == {}

\* The remote side sent text that is not valid in the current encoding: the
\* reader, under rmu, calls onUnknownEncoding and decodes with what it gives.
ReadUnknownEncoding(t) ==
    /\ ntask[t].pc = "read_net"
    /\ conn.open
    /\ \A l \in callbackLocks : conn[l] = "free"
    /\ NStep(t, NewNTask,
             [conn EXCEPT !.rmu = "free", !.fell = TRUE,
                          !.held = @ \cup {Nested("ReadMsg", "rmu", l) :
                                              l \in callbackLocks}])
    /\ UNCHANGED closeRets

\* The read deadline expired.
ReadTimeout(t) ==
    /\ ntask[t].pc = "read_net"
    /\ conn.open
    /\ ntask[t].dl
    /\ ReadReturns(t)

\* A read on a connection that is closed fails at once.
ReadClosed(t) ==
    /\ ntask[t].pc = "read_net"
    /\ ~conn.open
    /\ ReadReturns(t)

\* WriteMsg / WriteLine / Flush: the write under wmu.
Write(t) ==
    /\ ntask[t].pc = "write_wmu"
    /\ conn.wmu = "free"
    /\ NStep(t, NewNTask, conn)
    /\ UNCHANGED closeRets

NextNMDC ==
    \E t \in NTasks :
        \/ Call(t)
        \/ CloseWriter(t)
        \/ CloseReader(t)
        \/ ReadLock(t)
        \/ ReadData(t)
        \/ ReadUnknownEncoding(t)
        \/ ReadTimeout(t)
        \/ ReadClosed(t)
        \/ Write(t)

InitNMDC ==
    /\ conn = NewConn
    /\ ntask = [t \in NTasks |-> NewNTask]
    /\ closeRets = <<>>

(***************************************************************************)
(*                       Properties of nmdc.Conn                           *)
(***************************************************************************)

\* C9 (as it is stated): every call of Close returns what the first call
\* returned.
C9_SameReturnAsFirst ==
    \A i \in DOMAIN closeRets : closeRets[i] = closeRets[1]

\* C9: however often Close is called, the writer, the connection and the
\* reader are each closed once, by the first call; that call returns the
\* last error of the two codecs and every later call returns nil.
C9_CloseOnce ==
    /\ conn.nWClose <= 1 /\ conn.nConnClose <= 1 /\ conn.nRClose <= 1
    /\ conn.closed <=> conn.nWClose = 1
    /\ conn.nConnClose = conn.nRClose
    /\ conn.open <=> conn.nConnClose = 0
    /\ closeRets # <<>> =>
          /\ conn.nWClose = 1 /\ conn.nConnClose = 1 /\ conn.nRClose = 1
          /\ closeRets[1] \in {"nil", "errW", "errR"}
    /\ \A i \in DOMAIN closeRets : i > 1 => closeRets[i] = "nil"

C9_Witness ==
    /\ Len(closeRets) >= 3
    /\ closeRets[1] = "errW"
    /\ closeRets[3] = "nil"

\* C10: a Close that has closed the writer is never kept waiting by a task
\* that is blocked in the network read of ReadMsg, ReadMsgTo or ReadMsgToAny
\* without a deadline.
C10_CloseNotBlockedByRead ==
    \A t \in NTasks :
        ntask[t].pc = "close_rmu" =>
            \A u \in NTasks :
                ~(ntask[u].pc = "read_net" /\ conn.rmu = u /\ ~ntask[u].dl)

\* The locks a task holds.
Holds(t) == {l \in {"wmu", "rmu"} : conn[l] = t}

\* The lock a task is waiting for, if any.
Wants(t) ==
    CASE ntask[t].pc \in {"close_wmu", "write_wmu"} -> {"wmu"}
      [] ntask[t].pc \in {"close_rmu", "read_rmu"} -> {"rmu"}
      [] OTHER -> {}

\* C38: the two locks of a Conn are only ever nested as wmu, then rmu: the
\* one operation that takes a lock while it holds the other is Close, no
\* task that holds rmu waits for wmu (the unknown-encoding callback, which
\* runs under rmu, takes no lock), and so no two tasks each hold the lock
\* the other waits for.
C38_WriteLockBeforeReadLock ==
    /\ conn.held \subseteq {Nested("Close", "wmu", "rmu")}
    /\ \A t \in NTasks :
          /\ "rmu" \in Holds(t) => "wmu" \notin Wants(t) \cup Holds(t)
          /\ (Holds(t) # {} /\ Wants(t) # {}) => ntask[t].pc = "close_rmu"
    /\ \A t, u \in NTasks :
          ~(t # u /\ Wants(t) \cap Holds(u) # {} /\ Wants(u) \cap Holds(t) # {})

\* C38 witness: Close has taken rmu under wmu, after the callback had run
\* in a read, while a second Close holds wmu and a reader holds rmu.
C38_Witness ==
    /\ conn.held = {Nested("Close", "wmu", "rmu")}
    /\ conn.fell
    /\ \E t, u \in NTasks :
          /\ Holds(t) = {"rmu"} /\ ntask[t].pc = "read_net"
          /\ ntask[u].pc \in {"close_wmu", "write_wmu"}

(***************************************************************************)
(*              adc/client: Conn.Close and Conn.readLoop                   *)
(*                                                                         *)
(* HubHandshake makes the channels `closing` and `closed` and starts       *)
(* readLoop.  Any number of tasks may call Close.  Closing a channel that  *)
(* is closed already panics, which ends the program.                       *)
(***************************************************************************)

CTasks == {"c1", "c2", "c3"}

\* Close calls a run starts.
MaxCloseCalls == 4

\* The Conn when HubHandshake returns it.
NewHubConn ==
    [closing |-> FALSE,      \* the channel `closing` is closed
     closed |-> FALSE,       \* the channel `closed` is closed
     open |-> TRUE,          \* the underlying adc.Conn is open
     loop |-> "reading",     \* readLoop: reading or exited
     nClosing |-> 0,         \* history: close(c.closing) executed
     nConnClose |-> 0,       \* history: c.conn.Close() executed
     nCalls |-> 0,           \* history: Close calls started
     panicked |-> FALSE]     \* the program died of a panic

AStep(t, pc, c) ==
    /\ ~hubc.panicked
    /\ ctask' = [ctask EXCEPT ![t] = pc]
    /\ hubc' = c
    /\ UNCHANGED <<cvars, ivars, nvars, dvars, evars, hvars, pvars, rvars, gvars, mvars, yvars>>

\* A task calls Close.
CloseCall(t) ==
    /\ ctask[t] = "idle"
    /\ hubc.nCalls < MaxCloseCalls
    /\ AStep(t, "select", [hubc EXCEPT !.nCalls = @ + 1])

\* `select { case <-c.closing: ... default: }`
CloseSelect(t) ==
    /\ ctask[t] = "select"
    /\ AStep(t, IF hubc.closing THEN "await" ELSE "closeChan", hubc)

\* `close(c.closing)`
CloseChan(t) ==
    /\ ctask[t] = "closeChan"
    /\ IF hubc.closing
       THEN AStep(t, "panic", [hubc EXCEPT !.panicked = TRUE])
       ELSE AStep(t, "connClose",
                  [hubc EXCEPT !.closing = TRUE, !.nClosing = @ + 1])

\* `err := c.conn.Close()`
CloseConn(t) ==
    /\ ctask[t] = "connClose"
    /\ AStep(t, "await", [hubc EXCEPT !.open = FALSE, !.nConnClose = @ + 1])

\* `<-c.closed`, then return.
CloseAwait(t) ==
    /\ ctask[t] = "await"
    /\ hubc.closed
    /\ AStep(t, "idle", hubc)

\* readLoop ends: the read failed (always so once the connection is closed),
\* or a handler returned an error; `defer close(c.closed)`.
LoopExit ==
    /\ hubc.loop = "reading"
    /\ ~hubc.panicked
    /\ hubc' = [hubc EXCEPT !.loop = "exited", !.closed = TRUE]
    /\ UNCHANGED <<ctask, cvars, ivars, nvars, dvars, evars,
                   hvars, pvars, rvars, gvars, mvars, yvars>>

NextADC ==
    \/ \E t \in CTasks :
          \/ CloseCall(t)
          \/ CloseSelect(t)
          \/ CloseChan(t)
          \/ CloseConn(t)
          \/ CloseAwait(t)
    \/ LoopExit

InitADC ==
    /\ hubc = NewHubConn
    /\ ctask = [t \in CTasks |-> "idle"]

\* C11: concurrent calls of Close never close the channel `closing` twice:
\* no call panics, `closing` and the underlying connection are closed at
\* most once.
C11_ClosingClosedOnce ==
    /\ ~hubc.panicked
    /\ hubc.nClosing <= 1
    /\ hubc.nConnClose <= 1

(***************************************************************************)
(*            ircPeer as a recipient of events (hub/irc.go)                *)
(*                                                                         *)
(* Three peers are online: two IRC peers and one peer of another protocol. *)
(* Each IRC peer's ServeIRC task reads PRIVMSGs and dispatches them, one   *)
(* at a time; the third peer sends chat to the global room or to a named   *)
(* room.  An event reaches an IRC peer as a call of ChatMsg, PrivateMsg or *)
(* one of the methods that do nothing; a write takes the recipient's wmu   *)
(* and goes to its socket, which the remote side may stop draining.        *)
(***************************************************************************)

DIrc == {"p1", "p2"}
DOther == {"p3"}
DPeers == DIrc \cup DOther

\* The ordered membership of a room.
DMembers == <<"p1", "p2", "p3">>

\* peer.Name(), the user name given with USER, the host of conn.LocalAddr().
DName == [p \in DPeers |-> CASE p = "p1" -> "a" [] p = "p2" -> "b" [] OTHER -> "c"]
DUser == [p \in DPeers |-> CASE p = "p1" -> "ua" [] p = "p2" -> "ub" [] OTHER -> ""]
DHost == [p \in DPeers |-> CASE p = "p1" -> "h1" [] p = "p2" -> "h2" [] OTHER -> ""]

\* A nickname nobody has.
NoSuchNick == "zz"

\* The texts an origin sends, in this order.
Texts == <<"m1", "m2", "m3">>

\* Messages the origins send in a run, all together.
MaxMsgs == 2

\* The messages read so far.
NSent == Len(dorig["p1"].reads) + Len(dorig["p2"].reads) + Len(dorig["p3"].reads)

Prefix(name, user, host) == [Name |-> name, User |-> user, Host |-> host]

\* ircPeer.hostPref and ircPeer.ownPref as ircHandshake makes them.
hostPref(p) == Prefix(DHost[p], "", "")
ownPref(p) == Prefix(DName[p], DUser[p], DHost[p])

IrcMsg(pref, cmd, params) == [prefix |-> pref, cmd |-> cmd, params |-> params]

\* The value of hub.Message: Name and Text.
Message(name, text) == [Name |-> name, Text |-> text]

\* The prefix of a chat line: the sender's own prefix if the sender is an
\* IRC peer, else the name of the message with the recipient's host.
chatPrefix(p, from, msg) ==
    IF from \in DIrc THEN ownPref(from)
    ELSE Prefix(msg.Name, msg.Name, hostPref(p).Name)

\* A faulty variant: ChatMsg echoes the sender's own message
noEcho_Off(p, from) == FALSE

\* `if p == from { return nil }`
noEcho(p, from) == p = from

\* A faulty variant: the prefix is always built from the name of the message
ChatMsg_NamePrefix(p, room, from, msg) ==
    IF room # "" THEN <<>>
    ELSE <<IrcMsg(Prefix(msg.Name, msg.Name, hostPref(p).Name), "PRIVMSG",
                  <<ircHubChan, msg.Text>>)>>

\* ircPeer.ChatMsg: what is written to p (nothing, or one message); it
\* returns the error of the write.  room is the room's name ("" for nil and
\* for the global room).
ChatMsg(p, room, from, msg) ==
    IF noEcho(p, from) THEN <<>>
    ELSE IF room # "" THEN <<>>
    ELSE <<IrcMsg(chatPrefix(p, from, msg), "PRIVMSG", <<ircHubChan, msg.Text>>)>>

\* ircPeer.PrivateMsg: one message, addressed to the recipient's name.
PrivateMsg(p, from, msg) ==
    <<IrcMsg(chatPrefix(p, from, msg), "PRIVMSG", <<DName[p], msg.Text>>)>>

\* What a peer of another protocol is sent for an event (not an IRC line).
OtherMsg(from, to, msg) ==
    <<IrcMsg(Prefix(DName[from], "", ""), "other", <<to, msg.Text>>)>>

\* The events an IRC peer has no use for.
Unsupported ==
    {"Search", "ConnectTo", "RevConnectTo", "Redirect", "HubChatMsg",
     "PeersUpdate", "JoinRoom", "LeaveRoom"}

\* A faulty variant: Redirect writes to the connection and fails
dropEvent_Redirects(p, ev) ==
    IF ev = "Redirect"
    THEN [ret |-> "err", write |-> <<IrcMsg(hostPref(p), "ERROR", <<>>)>>]
    ELSE [ret |-> "nil", write |-> <<>>]

\* ircPeer.Search, ConnectTo, RevConnectTo, Redirect, HubChatMsg, PeersUpdate,
\* JoinRoom, LeaveRoom: `return nil`.
dropEvent(p, ev) == [ret |-> "nil", write |-> <<>>]

\* ircPeer.Searchable
Searchable(p) == FALSE

\* A faulty variant: a write puts the message in front of what was written
written_InFront(s, m) == m \o s

\* p.c.WriteMessage(m): the message follows what was written before.
written(s, m) == s \o m

\* h.PeerByName(dst): the online peer of that name, if any.
PeerByName(dst) == {p \in DPeers : DName[p] = dst}

\* A faulty variant: every PRIVMSG is taken for a line of #hub
isHubChan_Always(dst) == TRUE

\* `if dst == ircHubChan`
isHubChan(dst) == dst = ircHubChan

NewOrigin ==
    [pc |-> "read",     \* read (in readMessage), send, write (in the socket)
     reads |-> <<>>,    \* history: destination of every message read so far
     room |-> "",       \* the room of the dispatch in progress
     private |-> FALSE, \* the dispatch in progress is h.privateChat
     todo |-> <<>>]     \* recipients the dispatch has still to call

\* The message of the dispatch in progress of origin o.
CurText(o) == Texts[Len(dorig[o].reads)]
CurMsg(o) == Message(IF o \in DIrc /\ ~dorig[o].private THEN "" ELSE DName[o],
                     CurText(o))

DStep(o, r, peers, out) ==
    /\ dorig' = [dorig EXCEPT ![o] = r]
    /\ dpeers' = peers
    /\ dout' = out
    /\ UNCHANGED <<evlog, cvars, ivars, nvars, avars, evars,
                   hvars, pvars, rvars, gvars, mvars, yvars>>

\* ServeIRC, lines 550-578: the task of an IRC peer reads a PRIVMSG with two
\* parameters and starts its dispatch: globalChat.SendChat for #hub,
\* h.privateChat for the name of an online peer, nothing otherwise.
ReadPrivmsg(o) ==
    /\ o \in DIrc
    /\ dorig[o].pc = "read"
    /\ NSent < MaxMsgs
    /\ \E dst \in {ircHubChan, NoSuchNick} \cup {DName[p] : p \in DIrc} :
        DStep(o, [dorig[o] EXCEPT
                    !.pc = "send", !.reads = Append(@, dst), !.room = "",
                    !.private = ~isHubChan(dst),
                    !.todo = IF isHubChan(dst) THEN DMembers
                             ELSE IF PeerByName(dst) # {}
                                  THEN <<CHOOSE p \in PeerByName(dst) : TRUE>>
                                  ELSE <<>>],
              dpeers, dout)

\* The peer of another protocol sends a chat message to the global room or
\* to a named room; Room.SendChat calls ChatMsg on the members in turn.
SendChat(o) ==
    /\ o \in DOther
    /\ dorig[o].pc = "read"
    /\ NSent < MaxMsgs
    /\ \E room \in {"", "r1"} :
        DStep(o, [dorig[o] EXCEPT !.pc = "send", !.reads = Append(@, room),
                                  !.room = room, !.private = FALSE,
                                  !.todo = DMembers],
              dpeers, dout)

\* What the call on recipient p writes for the dispatch of origin o.
Event(o, p) ==
    IF p \in DOther
    THEN IF p = o THEN <<>> ELSE OtherMsg(o, dorig[o].room, CurMsg(o))
    ELSE IF dorig[o].private THEN PrivateMsg(p, o, CurMsg(o))
    ELSE ChatMsg(p, dorig[o].room, o, CurMsg(o))

\* The dispatch calls the next recipient: ChatMsg or PrivateMsg returns at
\* once when it has nothing to write, else writeMessage takes p.wmu.  After
\* the last recipient the origin reads again.
Deliver(o) ==
    /\ dorig[o].pc = "send"
    /\ IF dorig[o].todo = <<>>
       THEN DStep(o, [dorig[o] EXCEPT !.pc = "read"], dpeers, dout)
       ELSE LET p == Head(dorig[o].todo) IN
            IF Event(o, p) = <<>> \/ p \in DOther
            THEN DStep(o, [dorig[o] EXCEPT !.todo = Tail(@)], dpeers,
                       [dout EXCEPT ![p] = written(@, Event(o, p))])
            ELSE /\ dpeers[p].wmu = "free"
                 /\ DStep(o, [dorig[o] EXCEPT !.pc = "write"],
                          [dpeers EXCEPT ![p].wmu = o], dout)

\* p.c.WriteMessage(m) under wmu: the write returns when the socket has
\* taken the message.
WriteEvent(o) ==
    /\ dorig[o].pc = "write"
    /\ LET p == Head(dorig[o].todo) IN
        /\ dpeers[p].writable
        /\ DStep(o, [dorig[o] EXCEPT !.pc = "send", !.todo = Tail(@)],
                 [dpeers EXCEPT ![p].wmu = "free"],
                 [dout EXCEPT ![p] = written(@, Event(o, p))])

\* The client of an IRC peer stops reading: its socket takes no more writes.
SocketBlocks(p) ==
    /\ p \in DIrc
    /\ dpeers[p].writable
    /\ dpeers' = [dpeers EXCEPT ![p].writable = FALSE]
    /\ UNCHANGED <<dorig, dout, evlog, cvars, ivars, nvars, avars,
                   evars, hvars, pvars, rvars, gvars, mvars, yvars>>

\* The hub calls one of the methods an IRC peer does not support.
DropEvent(p) ==
    /\ p \in DIrc
    /\ \E ev \in Unsupported :
        /\ evlog' = [ev |-> ev, ret |-> dropEvent(p, ev).ret,
                     nWritten |-> Len(dropEvent(p, ev).write)]
        /\ dout' = [dout EXCEPT ![p] = written(@, dropEvent(p, ev).write)]
    /\ UNCHANGED <<dorig, dpeers, cvars, ivars, nvars, avars,
                   evars, hvars, pvars, rvars, gvars, mvars, yvars>>

NextDeliver ==
    \E p \in DPeers :
        \/ ReadPrivmsg(p)
        \/ SendChat(p)
        \/ Deliver(p)
        \/ WriteEvent(p)
        \/ SocketBlocks(p)
        \/ DropEvent(p)

InitDeliver ==
    /\ dpeers = [p \in DPeers |-> [wmu |-> "free", writable |-> TRUE]]
    /\ dout = [p \in DPeers |-> <<>>]
    /\ dorig = [p \in DPeers |-> NewOrigin]
    /\ evlog = [ev |-> "", ret |-> "nil", nWritten |-> 0]

(***************************************************************************)
(*                 Properties of the delivery of events                    *)
(***************************************************************************)

\* The prefix recipient p must see on a message of origin o.
ExpPrefix(o, p) ==
    IF o \in DIrc THEN Prefix(DName[o], DUser[o], DHost[o])
    ELSE Prefix(DName[o], DName[o], DHost[p])

\* The position of a text among the texts an origin sends.
TextNo(text) == CHOOSE k \in DOMAIN Texts : Texts[k] = text

\* The positions in the log of p of the messages of origin o with that text.
Copies(o, p, text) ==
    {i \in DOMAIN dout[p] :
        /\ dout[p][i].prefix = ExpPrefix(o, p)
        /\ dout[p][i].params[2] = text}

\* The k-th dispatch of origin o has returned.
Dispatched(o, k) ==
    /\ k \in DOMAIN dorig[o].reads
    /\ k < Len(dorig[o].reads) \/ dorig[o].pc = "read"

\* C12: a task that delivers an event to an IRC peer is never inside a write
\* to a socket that takes no writes: a blocked recipient does not hold up
\* the task that delivers to it.
C12_DeliveryNotStalled ==
    \A o \in DPeers :
        dorig[o].pc = "write" => dpeers[Head(dorig[o].todo)].writable

\* C13: the messages of one origin are written to every recipient in the
\* order in which the origin sent them.
C13_OriginOrder ==
    \A o \in DPeers : \A p \in DIrc :
        \A i, j \in DOMAIN dout[p] :
            (/\ i < j
             /\ dout[p][i].prefix = ExpPrefix(o, p)
             /\ dout[p][j].prefix = ExpPrefix(o, p))
            => TextNo(dout[p][i].params[2]) < TextNo(dout[p][j].params[2])

C13_Witness ==
    \E o \in DIrc : \E p \in DIrc \ {o} :
        /\ Len(dout[p]) = 2
        /\ dout[p][1] = IrcMsg(ExpPrefix(o, p), "PRIVMSG", <<ircHubChan, Texts[1]>>)
        /\ dout[p][2] = IrcMsg(ExpPrefix(o, p), "PRIVMSG", <<DName[p], Texts[2]>>)

\* C14: a PRIVMSG of an IRC peer to a target other than #hub is written at
\* most once, to the online peer of that name and addressed to that name; to
\* a name nobody has it is written to nobody, and the dispatch has nothing
\* to do.
C14_PrivateToOneRecipient ==
    \A o \in DIrc : \A k \in DOMAIN dorig[o].reads :
        LET dst == dorig[o].reads[k] IN
        dst # ircHubChan =>
            /\ \A p \in DPeers :
                  /\ Cardinality(Copies(o, p, Texts[k])) <= 1
                  /\ Copies(o, p, Texts[k]) # {} => DName[p] = dst
                  /\ \A i \in Copies(o, p, Texts[k]) :
                        dout[p][i] = IrcMsg(ExpPrefix(o, p), "PRIVMSG",
                                            <<dst, Texts[k]>>)
            /\ (dst = NoSuchNick /\ k = Len(dorig[o].reads)) =>
                  dorig[o].todo = <<>> /\ dorig[o].pc \in {"send", "read"}
            /\ (Dispatched(o, k) /\ dst # NoSuchNick) =>
                  \E p \in DPeers : Copies(o, p, Texts[k]) # {}

C14_Witness ==
    \E o \in DIrc : \E p \in DIrc \ {o} :
        /\ dorig[o].reads = <<NoSuchNick, DName[p]>>
        /\ dorig[o].pc = "read"
        /\ dout[p] = <<IrcMsg(ExpPrefix(o, p), "PRIVMSG", <<DName[p], Texts[2]>>)>>
        /\ \A q \in DPeers \ {p} : dout[q] = <<>>

\* C15: a message to the global room reaches every IRC peer but its sender
\* as exactly one PRIVMSG with parameters (#hub, text), with the prefix
\* name!name@host of the recipient's connection for a sender of another
\* protocol and the sender's own prefix for an IRC sender; a message to a
\* named room is written to no IRC peer.
C15_GlobalChatLine ==
    /\ \A p \in DIrc : \A i \in DOMAIN dout[p] :
          dout[p][i].params[1] = ircHubChan =>
              /\ dout[p][i].cmd = "PRIVMSG"
              /\ Len(dout[p][i].params) = 2
              /\ \E o \in DPeers \ {p} : dout[p][i].prefix = ExpPrefix(o, p)
    /\ \A o \in DPeers : \A k \in DOMAIN dorig[o].reads :
          LET dst == dorig[o].reads[k]
              global == IF o \in DIrc THEN dst = ircHubChan ELSE dst = "" IN
          \A p \in DIrc \ {o} :
              /\ (global /\ Dispatched(o, k)) =>
                    /\ Cardinality(Copies(o, p, Texts[k])) = 1
                    /\ \A i \in Copies(o, p, Texts[k]) :
                          dout[p][i] = IrcMsg(ExpPrefix(o, p), "PRIVMSG",
                                              <<ircHubChan, Texts[k]>>)
              /\ (o \in DOther /\ ~global) => Copies(o, p, Texts[k]) = {}

C15_Witness ==
    /\ dorig["p3"].reads = <<"r1", "">>
    /\ dorig["p3"].pc = "read"
    /\ dout["p1"] = <<IrcMsg(Prefix("c", "c", "h1"), "PRIVMSG", <<ircHubChan, Texts[2]>>)>>
    /\ dout["p2"] = <<IrcMsg(Prefix("c", "c", "h2"), "PRIVMSG", <<ircHubChan, Texts[2]>>)>>

\* C16: an IRC peer is never written a line of #hub that it sent itself.
C16_NoEcho ==
    \A p \in DIrc : \A i \in DOMAIN dout[p] :
        ~(dout[p][i].prefix = ownPref(p) /\ dout[p][i].params[1] = ircHubChan)

C16_Witness ==
    \E o \in DIrc : \E p \in DIrc \ {o} :
        /\ dorig[o].reads = <<ircHubChan>>
        /\ dorig[o].pc = "read"
        /\ dout[o] = <<>>
        /\ dout[p] # <<>>

\* C17: the methods an IRC peer does not support return nil and write
\* nothing: an IRC connection is written chat lines only; no IRC peer is
\* searchable.
C17_UnsupportedDropped ==
    /\ evlog.ev \in Unsupported => evlog.ret = "nil" /\ evlog.nWritten = 0
    /\ \A p \in DIrc :
          /\ ~Searchable(p)
          /\ \A i \in DOMAIN dout[p] : dout[p][i].cmd = "PRIVMSG"

C17_Witness ==
    /\ evlog.ev = "Redirect"
    /\ dout["p1"] # <<>>
    /\ dorig["p2"].pc = "read"

(***************************************************************************)
(*                    The myip plugin (plugins/myip)                       *)
(*                                                                         *)
(* The online peers of the delivery model, two IRC peers and one peer of   *)
(* another protocol, call the command `myip`.  A remote address is the     *)
(* string of a TCP address, a sequence of characters.                      *)
(***************************************************************************)

\* Calls of the command in a run.
MaxCmds == 3

\* peer.RemoteAddr().String(): an IPv4 and an IPv6 address with a port.
RemoteAddrs ==
    {<<"1", ".", "2", ":", "7">>, <<"[", ":", ":", "1", "]", ":", "7">>}

\* The position of the last colon of s, 0 if it has none.
LastColon(s) ==
    CHOOSE i \in 0..Len(s) :
        /\ i = 0 \/ s[i] = ":"
        /\ \A j \in (i + 1)..Len(s) : s[j] # ":"

\* net.SplitHostPort: the host is what precedes the last colon, without the
\* brackets of an IPv6 literal; an address without a port is an error.
SplitHostPort(s) ==
    LET i == LastColon(s)
        h == SubSeq(s, 1, i - 1) IN
    IF i = 0 THEN [host |-> <<>>, port |-> <<>>, err |-> "missing port"]
    ELSE IF h # <<>> /\ Head(h) = "["
         THEN IF h[Len(h)] = "]"
              THEN [host |-> SubSeq(h, 2, Len(h) - 1),
                    port |-> SubSeq(s, i + 1, Len(s)), err |-> "nil"]
              ELSE [host |-> <<>>, port |-> <<>>, err |-> "missing ']'"]
         ELSE [host |-> h, port |-> SubSeq(s, i + 1, Len(s)), err |-> "nil"]

\* `hub.Message{Me: true, Text: "- " + host}`
ipText(host) == <<"-", " ">> \o host

\* cmdIP: what `peer.ChatMsg(nil, peer, msg)` writes to the caller; the
\* error it returns is dropped.
cmdIP(p, addr) ==
    LET msg == Message("", ipText(SplitHostPort(addr).host)) IN
    IF p \in DIrc THEN ChatMsg(p, "", p, msg) ELSE OtherMsg(p, "", msg)

NoIP == [addr |-> <<>>, calls |-> <<>>, out |-> <<>>]

\* Peer p sends the command: the hub calls cmdIP(p, args).
CmdIP(p) ==
    /\ Len(ipc.calls) < MaxCmds
    /\ ipc' = [ipc EXCEPT !.calls = Append(@, p),
                          !.out[p] = written(@, cmdIP(p, ipc.addr[p]))]
    /\ UNCHANGED <<cvars, ivars, nvars, avars, dvars, evars, hvars, pvars,
                   rvars, gvars, mvars>>

NextMyIP == \E p \in DPeers : CmdIP(p)

InitMyIP ==
    \E a \in [DPeers -> RemoteAddrs] :
        ipc = [addr |-> a, calls |-> <<>>, out |-> [p \in DPeers |-> <<>>]]

InitNoIP == ipc = NoIP

\* The host of the addresses of the model.
HostOf(addr) ==
    IF addr[1] = "[" THEN <<":", ":", "1">> ELSE <<"1", ".", "2">>

\* How often p has called the command.
CallsOf(p) == Cardinality({i \in DOMAIN ipc.calls : ipc.calls[i] = p})

\* C39: every call of myip by a peer, of whatever protocol, has written that
\* peer one message whose text holds the host of its remote address, and
\* nothing has been written to a peer for another peer's call.
C39_MyIPAnswersCaller ==
    \A p \in DPeers :
        /\ Len(ipc.out[p]) = CallsOf(p)
        /\ \A i \in DOMAIN ipc.out[p] :
              ipc.out[p][i].params[2] = <<"-", " ">> \o HostOf(ipc.addr[p])

(***************************************************************************)
(*          nmdc.Conn: text encoding and the fallback encoding             *)
(*                                                                         *)
(* The writer has an encoder and the reader a decoder; "nil" stands for    *)
(* plain UTF-8.  When the reader meets text it cannot decode it calls      *)
(* onUnknownEncoding and goes on with the decoder the callback returns,    *)
(* if it returns one.                                                      *)
(***************************************************************************)

Encodings == {"cp1251", "sjis"}

\* Texts a hub can send: bytes that a decoder may or may not accept.
RawTexts == {"cyrillic", "sjistext"}

\* Writes and reads of a run, counted together.
MaxIO == 3

\* `dec.String(text)` succeeds and gives valid UTF-8: a single-byte code page
\* decodes every byte; a multi-byte encoding rejects bytes that are none of
\* its sequences.
Decodes(e, text) == e = "cp1251" \/ text = "sjistext"

NoCallback ==
    [text |-> "none", fallback |-> "nil", before |-> <<"nil", "nil">>,
     after |-> <<"nil", "nil">>]

NewEnc ==
    [fallback |-> "nil",   \* c.fallback
     encoder |-> "nil",    \* c.w's encoder
     decoder |-> "nil",    \* c.r's decoder
     wmu |-> FALSE,        \* c.wmu is held by a WriteMsg
     wenc |-> "nil",       \* history: the encoder when that WriteMsg took wmu
     switched |-> "none",  \* history: the encoding of the last fallback switch
                           \* since the last SetEncoding
     wlog |-> <<>>,        \* history: the encoder of every write, and
                           \* `switched` at that time
     rlog |-> <<>>,        \* history: the same for the reads
     cb |-> NoCallback]    \* history: the onUnknownEncoding call, if the last
                           \* step was one

EStepCallback(e) ==
    /\ nenc' = e
    /\ UNCHANGED <<cvars, ivars, nvars, avars, dvars, hvars, pvars, rvars, gvars, mvars, yvars>>

\* Any step but the callback: the record of the last callback is dropped.
EStep(e) == EStepCallback([e EXCEPT !.cb = NoCallback])

\* A faulty variant: the switch leaves the writer's encoder as it is
setEncoding_KeepsEncoder(c, e, event) ==
    IF event THEN c ELSE [c EXCEPT !.encoder = e, !.decoder = e]

\* Conn.setEncoding(enc, event): the encoder always, the decoder unless the
\* call comes from the reader's callback.
setEncoding(c, e, event) ==
    IF event THEN [c EXCEPT !.encoder = e]
    ELSE [c EXCEPT !.encoder = e, !.decoder = e]

\* Conn.onUnknownEncoding(text): the decoder it returns ("nil": keep the
\* current one) and the Conn after it.
onUnknownEncoding(c, text) ==
    IF c.fallback = "nil" THEN [dec |-> "nil", c |-> c]
    ELSE IF ~Decodes(c.fallback, text) THEN [dec |-> "nil", c |-> c]
    ELSE [dec |-> c.fallback, c |-> setEncoding(c, c.fallback, TRUE)]

\* Conn.SetEncoding(enc)
SetEncoding ==
    \E e \in Encodings \cup {"nil"} :
        /\ ~nenc.wmu
        /\ nenc.encoder # e \/ nenc.decoder # e \/ nenc.switched # "none"
        /\ EStep([setEncoding(nenc, e, FALSE) EXCEPT !.switched = "none"])

\* Conn.SetFallbackEncoding(enc)
SetFallbackEncoding ==
    \E e \in Encodings \cup {"nil"} :
        /\ ~nenc.wmu
        /\ nenc.fallback # e
        /\ EStep([nenc EXCEPT !.fallback = e])

\* Conn.WriteMsg on a writing goroutine: c.wmu.Lock()
EncWriteLock ==
    /\ ~nenc.wmu
    /\ Len(nenc.wlog) + Len(nenc.rlog) < MaxIO
    /\ EStep([nenc EXCEPT !.wmu = TRUE, !.wenc = nenc.encoder])

\* Conn.WriteMsg: the text is encoded with the writer's encoder, and wmu is
\* released.
EncWrite ==
    /\ nenc.wmu
    /\ EStep([nenc EXCEPT !.wmu = FALSE, !.wenc = "nil",
                          !.wlog = Append(@, [enc |-> nenc.encoder,
                                              sw |-> nenc.switched])])

\* Conn.ReadMsg of a message the decoder accepts.
EncRead ==
    /\ Len(nenc.wlog) + Len(nenc.rlog) < MaxIO
    /\ EStep([nenc EXCEPT !.rlog = Append(@, [enc |-> nenc.decoder,
                                              sw |-> nenc.switched])])

\* Conn.ReadMsg of a message whose text the reader cannot decode: the reader
\* calls onUnknownEncoding and takes over the decoder it returns.  The
\* reading goroutine holds rmu, not wmu.
UnknownEncoding ==
    \E text \in RawTexts :
        LET res == onUnknownEncoding(nenc, text)
            c2 == IF res.dec = "nil" THEN res.c
                  ELSE [res.c EXCEPT !.decoder = res.dec, !.switched = res.dec] IN
        /\ EStepCallback([c2 EXCEPT !.cb = [text |-> text, fallback |-> nenc.fallback,
                                    before |-> <<nenc.encoder, nenc.decoder>>,
                                    after |-> <<c2.encoder, c2.decoder>>]])

NextEnc ==
    \/ SetEncoding
    \/ SetFallbackEncoding
    \/ EncWriteLock
    \/ EncWrite
    \/ EncRead
    \/ UnknownEncoding

InitEnc == nenc = NewEnc

\* C19: a decode failure whose text the fallback encoding decodes switches
\* encoder and decoder to the fallback, and until the next SetEncoding every
\* write and read uses it; with no fallback, or a fallback that does not
\* decode the text, encoder and decoder stay as they were.
C19_FallbackSwitch ==
    /\ nenc.switched # "none" =>
          nenc.encoder = nenc.switched /\ nenc.decoder = nenc.switched
    /\ \A i \in DOMAIN nenc.wlog :
          nenc.wlog[i].sw # "none" => nenc.wlog[i].enc = nenc.wlog[i].sw
    /\ \A i \in DOMAIN nenc.rlog :
          nenc.rlog[i].sw # "none" => nenc.rlog[i].enc = nenc.rlog[i].sw
    /\ nenc.cb.text # "none" =>
          IF nenc.cb.fallback # "nil" /\ Decodes(nenc.cb.fallback, nenc.cb.text)
          THEN nenc.cb.after = <<nenc.cb.fallback, nenc.cb.fallback>>
          ELSE nenc.cb.after = nenc.cb.before

\* C26: while a WriteMsg holds wmu the writer's encoder is the one it had
\* when the lock was taken.
C26_EncoderStableUnderWmu ==
    nenc.wmu => nenc.encoder = nenc.wenc

C19_Witness ==
    /\ Len(nenc.wlog) = 2
    /\ nenc.wlog[1] = [enc |-> "nil", sw |-> "none"]
    /\ nenc.wlog[2] = [enc |-> "cp1251", sw |-> "cp1251"]
    /\ nenc.rlog # <<>>
    /\ nenc.rlog[Len(nenc.rlog)] = [enc |-> "cp1251", sw |-> "cp1251"]
    /\ nenc.cb.text = "cyrillic"
    /\ nenc.cb.fallback = "sjis"
    /\ nenc.cb.after = nenc.cb.before

(***************************************************************************)
(*        The ADC client: HubHandshake, the user list, the peer table      *)
(*                                                                         *)
(* One call of HubHandshake on a connection whose other end, the hub, may  *)
(* send anything.  Every step of the client is one read from or one write  *)
(* to the connection, with what the code does before the next one.         *)
(***************************************************************************)

FeaBASE == "BASE"
FeaBAS0 == "BAS0"
FeaTIGR == "TIGR"
FeaBZIP == "BZIP"

\* ourFeatures of protocolToHub: feature -> supported
ourFeatures == [f \in {FeaBASE, FeaBAS0, FeaTIGR, FeaBZIP} |-> TRUE]

\* The feature lists a hub's SUP may carry: AD<fea> is TRUE, RM<fea> FALSE.
HubSups ==
    {[f \in {FeaBASE, FeaTIGR} |-> TRUE],
     [f \in {FeaBAS0, FeaTIGR, "PING"} |-> TRUE],
     [f \in {FeaBASE, FeaBAS0} |-> TRUE],
     [f \in {FeaTIGR, FeaBZIP} |-> TRUE],
     [f \in {FeaBASE, FeaTIGR} |-> f = FeaBASE],
     <<>>}

\* ModFeatures.Intersect: the features both sides support.
Intersect(a, b) == {f \in DOMAIN a \cap DOMAIN b : a[f] /\ b[f]}

\* ModFeatures.IsSet on the result of Intersect.
IsSet(m, f) == f \in m

NoPID == ""
PIDs == {NoPID, "pd1"}
HsNames == {"", "me"}

\* PID.Hash(): the CID of a private ID; no two private IDs share one.
Hash(pid) == "cid-" \o pid

SIDs == {"AAAB", "AAAC", "AAAD"}
NoSID == "AAAA"

\* The messages ReadInfoMsg can return; "err" is a read that fails or a
\* packet that is no info packet.
InfoMsgs ==
    {[t |-> "SUP", fea |-> f, sid |-> NoSID] : f \in HubSups}
    \cup {[t |-> "SID", fea |-> <<>>, sid |-> s] : s \in {"AAAB", "AAAC"}}
    \cup {[t |-> "INF", fea |-> <<>>, sid |-> NoSID],
          [t |-> "err", fea |-> <<>>, sid |-> NoSID]}

\* Config.validate
validate(cf) ==
    IF cf.pid = NoPID THEN "PID should not be empty"
    ELSE IF cf.name = "" THEN "name should be set"
    ELSE "nil"

\* A faulty variant: TIGR is not asked for
mutualErr_NoTIGR(mutual) ==
    IF ~IsSet(mutual, FeaBASE) /\ ~IsSet(mutual, FeaBAS0)
    THEN "hub does not support BASE"
    ELSE "nil"

\* protocolToHub, `check mutual features`
mutualErr(mutual) ==
    IF ~IsSet(mutual, FeaBASE) /\ ~IsSet(mutual, FeaBAS0)
    THEN "hub does not support BASE"
    ELSE IF ~IsSet(mutual, FeaTIGR) THEN "hub does not support TIGR"
    ELSE "nil"

NewUser == [Pid |-> NoPID, Id |-> "", Name |-> ""]

\* A faulty variant: the ID is left as it is
identifyUser_NoHash(user) == user

\* identifyToHub: `if user.Id.IsZero() { user.Id = user.Pid.Hash() }`
identifyUser(user) ==
    IF user.Id = "" THEN [user EXCEPT !.Id = Hash(user.Pid)] ELSE user

\* The B-INF of the client: its source SID and the fields ID and PD.
BInf(sid, user) == [t |-> "BINF", src |-> sid, id |-> user.Id, pd |-> user.Pid]

HSup == [t |-> "HSUP", src |-> NoSID, id |-> "", pd |-> NoPID]

NewHandshake(cf) ==
    [pc |-> "call",
     conf |-> cf,
     reads |-> <<>>,        \* history: what ReadInfoMsg returned
     out |-> <<>>,          \* what was written and flushed
     mutual |-> {},
     sid |-> NoSID,
     user |-> NewUser,      \* c.user
     connClosed |-> FALSE,
     loop |-> FALSE,        \* readLoop was started
     ret |-> "none",        \* "ok", or how HubHandshake failed
     stage |-> "hubInfo",   \* of acceptUsersList
     ulog |-> <<>>,         \* history: the packets acceptUsersList read
     nloop |-> 0,           \* history: packets the read loop read
     panicked |-> FALSE]

HStep(h, p) ==
    /\ ~hs.panicked
    /\ hs' = h
    /\ ptab' = p
    /\ UNCHANGED <<cvars, ivars, nvars, avars, dvars, evars, pvars, rvars, gvars, mvars, yvars>>

\* `conn.Close(); return nil, err` of HubHandshake
hsFail(h, cause) ==
    [h EXCEPT !.pc = "done", !.connClosed = TRUE, !.ret = cause]

\* HubHandshake up to the call of protocolToHub.
Validate ==
    /\ hs.pc = "call"
    /\ HStep(IF validate(hs.conf) # "nil"
             THEN [hs EXCEPT !.pc = "done", !.ret = "config"]
             ELSE [hs EXCEPT !.pc = "sup"], ptab)

\* protocolToHub: WriteHubMsg(Supported) and Flush, which may fail.
SendSup ==
    /\ hs.pc = "sup"
    /\ \E ok \in BOOLEAN :
          HStep(IF ok THEN [hs EXCEPT !.pc = "rdSup", !.out = Append(@, HSup)]
                ELSE hsFail(hs, "protocol"), ptab)

\* protocolToHub: the first ReadInfoMsg and the check of the features.
ReadSup ==
    /\ hs.pc = "rdSup"
    /\ \E msg \in InfoMsgs :
          LET h == [hs EXCEPT !.reads = Append(@, msg)]
              mutual == Intersect(ourFeatures, msg.fea) IN
          HStep(IF msg.t # "SUP" THEN hsFail(h, "protocol")
                ELSE IF mutualErr(mutual) # "nil" THEN hsFail(h, "protocol")
                ELSE [h EXCEPT !.pc = "rdSid", !.mutual = mutual], ptab)

\* protocolToHub: the second ReadInfoMsg; HubHandshake builds the Conn.
ReadSid ==
    /\ hs.pc = "rdSid"
    /\ \E msg \in InfoMsgs :
          LET h == [hs EXCEPT !.reads = Append(@, msg)] IN
          HStep(IF msg.t # "SID" THEN hsFail(h, "protocol")
                ELSE [h EXCEPT !.pc = "identify", !.sid = msg.sid,
                               !.user = [NewUser EXCEPT !.Pid = hs.conf.pid,
                                                        !.Name = hs.conf.name]],
                ptab)

\* identifyToHub: WriteBroadcast(sid, user) and Flush, which may fail.
Identify ==
    /\ hs.pc = "identify"
    /\ \E ok \in BOOLEAN :
          LET user == identifyUser(hs.user)
              h == [hs EXCEPT !.user = user] IN
          HStep(IF ok THEN [h EXCEPT !.pc = "users",
                                     !.out = Append(@, BInf(hs.sid, user))]
                ELSE hsFail(h, "identify"), ptab)

\* ---- the peer table: c.peers.byCID, c.peers.bySID and the Peers ----

CIDs == {"cA", "cB"}

\* Packets the client reads in one run, after its INF.
MaxPkts == 5

\* A Peer: p.sid ("nil" while offline) and p.user.Id.  The table `tab` holds
\* every Peer ever made; the two maps point into it.
NewPeers ==
    [tab |-> <<>>, bySID |-> <<>>, byCID |-> <<>>,
     rejoined |-> FALSE,    \* history: peerJoins found the CID in byCID
     panicked |-> FALSE]    \* Peer.update panicked with "wrong cid"

Put(f, k, v) == [x \in DOMAIN f \cup {k} |-> IF x = k THEN v ELSE f[x]]

Del(f, k) == [x \in DOMAIN f \ {k} |-> f[x]]

\* Peer.Online
PeerOnline(p) == p.sid # "nil"

\* Peer.update(u): panics unless the CID is the stored one.
update(pt, i, id) ==
    IF pt.tab[i].id # id THEN [pt EXCEPT !.panicked = TRUE]
    ELSE [pt EXCEPT !.tab[i].id = id]

\* Conn.peerJoins(sid, u)
peerJoins(pt, sid, id) ==
    IF id \in DOMAIN pt.byCID
    THEN LET i == pt.byCID[id] IN
         update([pt EXCEPT !.bySID = Put(@, sid, i),
                           !.tab[i].sid = sid,
                           !.rejoined = TRUE], i, id)
    ELSE LET i == Len(pt.tab) + 1 IN
         [pt EXCEPT !.tab = Append(@, [sid |-> sid, id |-> id]),
                    !.bySID = Put(@, sid, i),
                    !.byCID = Put(@, id, i)]

\* Conn.peerQuit(sid): the table and the error it returns.
peerQuit(pt, sid) ==
    IF sid \notin DOMAIN pt.bySID THEN [pt |-> pt, err |-> "unknown user quits"]
    ELSE [pt |-> [pt EXCEPT !.tab[pt.bySID[sid]].sid = "nil",
                            !.bySID = Del(@, sid)],
          err |-> "nil"]

\* Conn.peerUpdate(sid, pck): the fields of the packet are decoded into the
\* stored user info of a known SID (an INF without ID keeps the stored one);
\* an unknown SID gets a new Peer.
peerUpdate(pt, sid, id) ==
    IF sid \in DOMAIN pt.bySID
    THEN IF id = "" THEN pt ELSE [pt EXCEPT !.tab[pt.bySID[sid]].id = id]
    ELSE LET i == Len(pt.tab) + 1 IN
         [pt EXCEPT !.tab = Append(@, [sid |-> sid, id |-> id]),
                    !.bySID = Put(@, sid, i),
                    !.byCID = Put(@, id, i)]

\* A packet of ReadPacketRaw: kind I, B, D or "err" (the read failed), the
\* command, and the fields the client looks at.
Pkt(k, cmd, ok, sid, id) == [k |-> k, cmd |-> cmd, ok |-> ok, sid |-> sid, id |-> id]

UserListPkts ==
    {Pkt("I", "INF", TRUE, NoSID, ""), Pkt("I", "MSG", TRUE, NoSID, ""),
     Pkt("I", "STA", TRUE, NoSID, ""), Pkt("I", "STA", FALSE, NoSID, ""),
     Pkt("D", "CTM", TRUE, NoSID, ""), Pkt("err", "", TRUE, NoSID, "")}
    \cup {Pkt("B", "INF", TRUE, s, c) : s \in SIDs, c \in CIDs}

LoopPkts ==
    {Pkt("B", "SCH", TRUE, "AAAB", ""), Pkt("I", "MSG", TRUE, NoSID, ""),
     Pkt("err", "", TRUE, NoSID, "")}
    \cup {Pkt("B", "INF", TRUE, s, c) : s \in SIDs, c \in CIDs \cup {""}}
    \cup {Pkt("I", "QUI", TRUE, s, "") : s \in SIDs}

\* A faulty variant: the PID stays in the user info
wipePid_Keeps(user) == user

\* acceptUsersList: `c.user.Pid = nil`
wipePid(user) == [user EXCEPT !.Pid = NoPID]

\* One turn of the loop of acceptUsersList with the packet cmd: the stage
\* after it, the Conn's user info, the peer table, and what the function
\* returns ("" while the loop goes on).
acceptUsersList(h, pt, cmd) ==
    LET go(stage, user, p, ret) ==
            [stage |-> stage, user |-> user, pt |-> p, ret |-> ret]
        fail == go(h.stage, h.user, pt, "err") IN
    CASE cmd.k = "err" -> fail
      [] cmd.k = "I" ->
            CASE h.stage = "hubInfo" ->
                    IF cmd.cmd # "INF" THEN fail
                    ELSE go("optStatus", h.user, pt, "")
              [] h.stage = "optStatus" ->
                    IF cmd.cmd # "STA" THEN fail
                    ELSE IF ~cmd.ok THEN fail
                    ELSE go("userList", h.user, pt, "")
              [] OTHER -> fail
      [] cmd.k = "B" ->
            IF h.stage = "hubInfo" THEN fail
            ELSE IF cmd.sid = h.sid
            THEN go("userList", [wipePid(h.user) EXCEPT !.Id = cmd.id], pt, "nil")
            ELSE go("userList", h.user, peerJoins(pt, cmd.sid, cmd.id), "")
      [] OTHER -> fail

\* A faulty variant: a user info from an unknown SID is a join
handleBroadcast_Joins(pt, p) ==
    IF p.cmd = "INF"
    THEN IF p.sid \in DOMAIN pt.bySID THEN peerUpdate(pt, p.sid, p.id)
         ELSE peerJoins(pt, p.sid, p.id)
    ELSE pt

\* Conn.handleBroadcast(p)
handleBroadcast(pt, p) ==
    IF p.cmd = "INF" THEN peerUpdate(pt, p.sid, p.id) ELSE pt

\* Conn.handleInfo(p)
handleInfo(pt, p) ==
    IF p.cmd = "QUI" THEN peerQuit(pt, p.sid) ELSE [pt |-> pt, err |-> "nil"]

\* acceptUsersList reads a packet; on its return HubHandshake closes the
\* connection, or starts the read loop and returns the Conn.
UsersPacket ==
    /\ hs.pc = "users"
    /\ Len(hs.ulog) < MaxPkts
    /\ \E cmd \in UserListPkts :
          LET r == acceptUsersList(hs, ptab, cmd)
              h == [hs EXCEPT !.ulog = Append(@, cmd), !.stage = r.stage,
                              !.user = r.user] IN
          HStep(CASE r.ret = "" -> h
                  [] r.ret = "nil" ->
                        [h EXCEPT !.pc = "normal", !.loop = TRUE, !.ret = "ok"]
                  [] OTHER -> hsFail(h, "userlist"),
                r.pt)

\* readLoop reads a packet.
LoopPacket ==
    /\ hs.pc = "normal"
    /\ Len(hs.ulog) + hs.nloop < MaxPkts
    /\ \E cmd \in LoopPkts :
          LET h == [hs EXCEPT !.nloop = @ + 1] IN
          CASE cmd.k = "err" -> HStep([h EXCEPT !.pc = "exit"], ptab)
            [] cmd.k = "B" -> HStep(h, handleBroadcast(ptab, cmd))
            [] cmd.k = "I" ->
                  LET r == handleInfo(ptab, cmd) IN
                  HStep(IF r.err # "nil" THEN [h EXCEPT !.pc = "exit"] ELSE h, r.pt)

NextHandshake ==
    \/ Validate
    \/ SendSup
    \/ ReadSup
    \/ ReadSid
    \/ Identify
    \/ UsersPacket
    \/ LoopPacket

HsConfigs == [pid : PIDs, name : HsNames]

InitHandshake ==
    /\ hs \in {NewHandshake(cf) : cf \in HsConfigs}
    /\ ptab = NewPeers

(***************************************************************************)
(*                     Claims about the ADC client                         *)
(***************************************************************************)

\* The handshake went on after the PROTOCOL phase.
PastProtocol == hs.pc \in {"identify", "users", "normal", "exit"}

SentInf == \E i \in DOMAIN hs.out : hs.out[i].t = "BINF"

\* C22: the client goes on after the hub's SUP only if the features both
\* sides support contain TIGR and one of BASE and BAS0; otherwise the
\* handshake fails, no INF is sent and the connection is closed.
C22_MandatoryFeatures ==
    /\ PastProtocol => Len(hs.reads) = 2 /\ hs.reads[1].t = "SUP"
    /\ (Len(hs.reads) >= 1 /\ hs.reads[1].t = "SUP") =>
          LET m == Intersect(ourFeatures, hs.reads[1].fea) IN
          IF FeaTIGR \in m /\ (FeaBASE \in m \/ FeaBAS0 \in m)
          THEN Len(hs.reads) = 1 => hs.pc = "rdSid"
          ELSE /\ hs.pc = "done"
               /\ hs.ret = "protocol"
               /\ ~SentInf
               /\ hs.connClosed
               /\ ~hs.loop

\* C22 witness: a hub with BASE and BAS0 but without TIGR was turned away.
C22_Witness ==
    /\ Len(hs.reads) = 1
    /\ hs.reads[1].t = "SUP"
    /\ hs.reads[1].fea = [f \in {FeaBASE, FeaBAS0} |-> TRUE]
    /\ hs.pc = "done"

\* C23: the client writes its SUP first, then reads the hub's SUP and the
\* SID assignment in this order, anything else in either place failing the
\* handshake, and writes its INF only after that, with the assigned SID as
\* source and hash(PD) as ID.
C23_PhaseOrder ==
    /\ Len(hs.out) <= 2
    /\ hs.reads # <<>> => hs.out # <<>>
    /\ hs.out # <<>> => hs.out[1] = HSup
    /\ (Len(hs.reads) >= 1 /\ hs.reads[1].t # "SUP") =>
          Len(hs.reads) = 1 /\ hs.pc = "done" /\ hs.ret = "protocol"
    /\ (Len(hs.reads) = 2 /\ hs.reads[2].t # "SID") =>
          hs.pc = "done" /\ hs.ret = "protocol" /\ Len(hs.out) = 1
    /\ Len(hs.out) = 2 =>
          /\ Len(hs.reads) = 2
          /\ hs.reads[1].t = "SUP"
          /\ hs.reads[2].t = "SID"
          /\ hs.out[2] = [t |-> "BINF", src |-> hs.reads[2].sid,
                          id |-> Hash(hs.conf.pid), pd |-> hs.conf.pid]
          /\ hs.conf.pid # NoPID

\* C23 witness: the INF went out under the second of the SIDs a hub assigns.
C23_Witness ==
    /\ Len(hs.out) = 2
    /\ hs.out[2].src = "AAAC"
    /\ hs.pc = "users"

IsHubInf(p) == p.k = "I" /\ p.cmd = "INF"

IsStatus(p) == p.k = "I" /\ p.cmd = "STA"

IsBroadcast(p) == p.k = "B"

\* The packet at place i of the user list is one the client goes on after.
Accepted(i) ==
    LET p == hs.ulog[i] IN
    \/ i = 1 /\ IsHubInf(p)
    \/ i = 2 /\ IsStatus(p) /\ p.ok
    \/ i >= 2 /\ IsBroadcast(p)

C29_BySIDOnlineOnly ==
    /\ \A s \in DOMAIN ptab.bySID : ptab.tab[ptab.bySID[s]].sid = s
    /\ \A s, t \in DOMAIN ptab.bySID : ptab.bySID[s] = ptab.bySID[t] => s = t
    /\ \A s \in DOMAIN ptab.bySID :
          \E c \in DOMAIN ptab.byCID : ptab.byCID[c] = ptab.bySID[s]

\* C30: Peer.update never panics: while peerJoins can be called, every peer
\* found under a CID in byCID has that CID in its user info.
C30_WrongCidUnreachable ==
    /\ ~ptab.panicked
    /\ hs.pc = "users" =>
          \A c \in DOMAIN ptab.byCID : ptab.tab[ptab.byCID[c]].id = c

\* C30 witness: peerJoins found a known CID during the user list, and later
\* an update gave a peer another CID than the one it is filed under.
C30_Witness ==
    /\ ptab.rejoined
    /\ hs.pc = "normal"
    /\ \E c \in DOMAIN ptab.byCID : ptab.tab[ptab.byCID[c]].id # c

\* C32: when HubHandshake returns an error, whatever the cause, the
\* connection it was given is closed and no read loop was started.
C32_FailureClosesConn ==
    (hs.pc = "done" /\ hs.ret # "ok") => (hs.connClosed /\ ~hs.loop)

(***************************************************************************)
(*              The ADC client: reverse-connection tokens                  *)
(*                                                                         *)
(* Callers ask for a token with revConnToken and then wait on the two      *)
(* channels it returns; the read loop answers ConnectRequests of the hub.  *)
(* What is done under c.revConn's mutex is one step.                       *)
(***************************************************************************)

\* The callers of revConnToken; each owns the channels made by its call.
RevReqs == {"q1", "q2", "q3"}

\* What strconv.Itoa(rand.Int()) yields.
RevTokens == {"17", "42"}

\* A token no call was given.
ForeignToken == "99"

\* Direct packets the read loop reads.
MaxDirect == 3

\* A direct packet: `to` tells whether it is addressed to c.SID(), ok whether
\* its message decodes, peer whether peerBySID finds the sender.
Direct(to, ok, cmd, token, peer, proto, port, ip) ==
    [to |-> to, ok |-> ok, cmd |-> cmd, token |-> token, peer |-> peer,
     proto |-> proto, port |-> port, ip |-> ip]

ProtoADC == "ADC/1.0"

DirectPkts ==
    {Direct(TRUE, TRUE, "CTM", t, TRUE, ProtoADC, 412, "10.0.0.1") :
        t \in RevTokens \cup {ForeignToken}}
    \cup {Direct(TRUE, TRUE, "CTM", t, FALSE, ProtoADC, 412, "") : t \in RevTokens}
    \cup {Direct(TRUE, TRUE, "CTM", "17", TRUE, "ADCS/0.10", 412, "10.0.0.1"),
          Direct(TRUE, TRUE, "CTM", "17", TRUE, ProtoADC, 0, "10.0.0.1"),
          Direct(TRUE, TRUE, "CTM", "42", TRUE, ProtoADC, 412, ""),
          Direct(TRUE, TRUE, "RCM", "17", TRUE, ProtoADC, 0, ""),
          Direct(TRUE, FALSE, "CTM", "17", TRUE, ProtoADC, 412, ""),
          Direct(FALSE, TRUE, "CTM", "17", TRUE, ProtoADC, 412, "10.0.0.1")}

NoDirect == [kind |-> "none", tokens |-> <<>>, go |-> {}]

NewRev ==
    [tokens |-> <<>>,       \* c.revConn.tokens: token -> the call it was made for
     call |-> [q \in RevReqs |->
                 [pc |-> "idle",      \* "idle", "spin", "done", then "used"
                  tok |-> ""]],       \* the token returned
     addr |-> [q \in RevReqs |-> <<>>],   \* the buffered channels, each of
     errc |-> [q \in RevReqs |-> <<>>],   \* capacity 1
     go |-> {},             \* the handleConnReq goroutines yet to send
     blocked |-> {},        \* goroutines that found their channel full
     loop |-> "reading",    \* the read loop, or how it ended
     nread |-> 0,           \* history: direct packets read
     last |-> NoDirect]     \* history: the last packet if the last step
                            \* handled one, and the state it found

RStepLast(r) ==
    /\ rev' = r
    /\ UNCHANGED <<cvars, ivars, nvars, avars, dvars, evars, hvars, pvars, gvars, mvars, yvars>>

RStep(r) == RStepLast([r EXCEPT !.last = NoDirect])

\* A faulty variant: a token in use is taken again
revConnToken_Overwrite(r, q, tok) ==
    [r EXCEPT !.tokens = Put(r.tokens, tok, q),
              !.call[q] = [pc |-> "done", tok |-> tok]]

\* One pass of the loop of revConnToken with rand.Int() = tok.
revConnToken(r, q, tok) ==
    IF tok \notin DOMAIN r.tokens
    THEN [r EXCEPT !.tokens = Put(r.tokens, tok, q),
                   !.call[q] = [pc |-> "done", tok |-> tok]]
    ELSE [r EXCEPT !.call[q].pc = "spin"]    \* collision, pick another token

RevConnToken(q) ==
    /\ rev.call[q].pc \in {"idle", "spin"}
    /\ \E tok \in RevTokens : RStep(revConnToken(rev, q, tok))

\* handleDirect: look the token up and delete it under the mutex, then start
\* handleConnReq in a goroutine of its own.
handleDirect(r, p) ==
    IF ~p.ok THEN [r |-> r, err |-> "decode"]
    ELSE IF p.cmd # "CTM" THEN [r |-> r, err |-> "nil"]
    ELSE IF p.token \notin DOMAIN r.tokens THEN [r |-> r, err |-> "nil"]
    ELSE LET q == r.tokens[p.token] IN
         [r |-> [r EXCEPT !.tokens = Del(r.tokens, p.token),
                          !.call[q].pc = "used",
                          !.go = @ \cup {[q |-> q, p |-> p]}],
          err |-> "nil"]

\* readLoop, case *adcp.DirectPacket
ReadDirect ==
    /\ rev.loop = "reading"
    /\ rev.nread < MaxDirect
    /\ \E p \in DirectPkts :
          LET r0 == [rev EXCEPT !.nread = @ + 1,
                                !.last = [kind |-> IF p.ok THEN p.cmd ELSE "bad",
                                          tokens |-> rev.tokens, go |-> rev.go]] IN
          IF ~p.to THEN RStepLast([r0 EXCEPT !.loop = "wrong destination",
                                             !.last.kind = "misrouted"])
          ELSE LET h == handleDirect(r0, p) IN
               RStepLast(IF h.err # "nil" THEN [h.r EXCEPT !.loop = h.err]
                         ELSE h.r)

\* handleConnReq: the channel it sends on and the value.
connReqAnswer(p) ==
    IF ~p.peer THEN [ch |-> "errc", v |-> "peer offline"]
    ELSE IF p.proto # ProtoADC THEN [ch |-> "errc", v |-> "unsupported protocol"]
    ELSE IF p.port = 0 THEN [ch |-> "errc", v |-> "no port"]
    ELSE IF p.ip = "" THEN [ch |-> "errc", v |-> "no address"]
    ELSE [ch |-> "addr", v |-> p.ip]

\* The send of one handleConnReq goroutine; a send on a full channel blocks.
HandleConnReq ==
    \E g \in rev.go :
        LET a == connReqAnswer(g.p)
            full == Len(IF a.ch = "addr" THEN rev.addr[g.q] ELSE rev.errc[g.q]) >= 1
            r1 == [rev EXCEPT !.go = @ \ {g}] IN
        IF full THEN RStep([r1 EXCEPT !.blocked = @ \cup {g}])
        ELSE IF a.ch = "addr" THEN RStep([r1 EXCEPT !.addr[g.q] = Append(@, a.v)])
        ELSE RStep([r1 EXCEPT !.errc[g.q] = Append(@, a.v)])

NextRevConn ==
    \/ \E q \in RevReqs : RevConnToken(q)
    \/ ReadDirect
    \/ HandleConnReq

InitRevConn == rev = NewRev

InitNoRev == rev = NewRev

\* The calls whose token is in the table.
Outstanding == {rev.tokens[t] : t \in DOMAIN rev.tokens}

\* What was delivered to a call.
Delivered(q) == Len(rev.addr[q]) + Len(rev.errc[q])

\* C31: a token returned by revConnToken belongs to its call alone while it
\* is outstanding; a ConnectRequest with an outstanding token removes it and
\* one value arrives on one of the call's two channels, no sender blocking;
\* a ConnectRequest with any other token changes nothing and the read loop
\* goes on.
C31_TokensSingleUse ==
    /\ \A q \in RevReqs :
          /\ rev.call[q].pc = "done" =>
                /\ rev.call[q].tok \in DOMAIN rev.tokens
                /\ rev.tokens[rev.call[q].tok] = q
          /\ rev.call[q].pc = "used" =>
                /\ q \notin Outstanding
                /\ Delivered(q) + Cardinality({g \in rev.go : g.q = q}) = 1
          /\ rev.call[q].pc # "used" =>
                /\ Delivered(q) = 0
                /\ {g \in rev.go : g.q = q} = {}
          /\ rev.call[q].pc \in {"idle", "spin"} => q \notin Outstanding
    /\ rev.blocked = {}
    /\ (rev.last.kind = "CTM" /\ rev.go = rev.last.go) =>
          /\ rev.tokens = rev.last.tokens
          /\ rev.loop = "reading"
    /\ (rev.last.kind = "CTM" /\ rev.go # rev.last.go) =>
          /\ Cardinality(rev.go) = Cardinality(rev.last.go) + 1
          /\ Cardinality(DOMAIN rev.tokens) + 1 = Cardinality(DOMAIN rev.last.tokens)
          /\ rev.loop = "reading"

\* C31 witness: a token was answered with an address, handed out again after
\* a collision and answered with an error, and a request with a used token
\* has just been ignored.
C31_Witness ==
    /\ \E q1, q2 \in RevReqs :
          /\ q1 # q2
          /\ rev.call[q1].tok = rev.call[q2].tok
          /\ rev.call[q1].pc = "used" /\ rev.call[q2].pc = "used"
          /\ Len(rev.addr[q1]) = 1 /\ Len(rev.errc[q2]) = 1
    /\ rev.last.kind = "CTM"
    /\ rev.go = rev.last.go
    /\ \E q \in RevReqs : rev.call[q].pc = "spin"

(***************************************************************************)
(*                     dc.Ping: the hub pinger                             *)
(***************************************************************************)

nmdcSchema == "dchub"
nmdcsSchema == "nmdcs"
adcSchema == "adc"
adcsSchema == "adcs"

\* The scheme of the address given to Ping; "" is an address without "://".
PingSchemes == {nmdcSchema, nmdcsSchema, adcSchema, adcsSchema, "", "http"}

\* An error value: its kind, and for an ADC status its severity and code.
Err(k, sev, code, msg) == [k |-> k, sev |-> sev, code |-> code, msg |-> msg]

ErrNil == Err("nil", "", 0, "")

\* nmdc.ErrRegisteredOnly
ErrRegisteredOnly == Err("regonly", "", 0, "registered users only")

\* &nmdc.ErrBanned{Reason: r}
ErrBanned(r) == Err("banned", "", 0, r)

PingErrs ==
    {ErrNil, ErrRegisteredOnly, ErrBanned("spam"), ErrBanned(""),
     Err("other", "", 0, "timeout")}

NoHub == [nil |-> TRUE, Name |-> "", Desc |-> "", Topic |-> "", Users |-> <<>>]

\* What nmdc.Ping and adc.Ping learn of a hub: Users holds the share sizes.
PingHubs ==
    {NoHub,
     [nil |-> FALSE, Name |-> "hub", Desc |-> "", Topic |-> "", Users |-> <<>>],
     [nil |-> FALSE, Name |-> "hub", Desc |-> "", Topic |-> "topic", Users |-> <<1>>],
     [nil |-> FALSE, Name |-> "hub", Desc |-> "desc", Topic |-> "topic",
      Users |-> <<1, 2>>]}

NoInfo == [nil |-> TRUE, Name |-> "", Desc |-> "", Users |-> 0, Share |-> 0]

RECURSIVE SumShare(_)
SumShare(users) ==
    IF users = <<>> THEN 0 ELSE Head(users) + SumShare(Tail(users))

\* A faulty variant: a ban is reported with the code of a refusal
pingErr_BanAs26(err) ==
    IF err.k \in {"regonly", "banned"} THEN Err("status", "fatal", 26, err.msg)
    ELSE err

\* Ping, NMDC branch: the error of nmdc.Ping as an ADC status error.
pingErr(err) ==
    IF err.k = "regonly" THEN Err("status", "fatal", 26, err.msg)
    ELSE IF err.k = "banned" THEN Err("status", "fatal", 30, err.msg)
    ELSE err

\* Ping, NMDC branch after nmdc.Ping returned (hub, err).
pingNMDC(hub, err0) ==
    LET err == pingErr(err0) IN
    IF err.k # "nil" /\ hub.nil THEN [info |-> NoInfo, err |-> err]
    ELSE [info |-> [nil |-> FALSE, Name |-> hub.Name,
                    Desc |-> IF hub.Desc = "" THEN hub.Topic ELSE hub.Desc,
                    Users |-> Len(hub.Users), Share |-> SumShare(hub.Users)],
          err |-> err]

\* Ping, ADC branch after adc.Ping returned (hub, err).
pingADC(hub, err) ==
    IF err.k # "nil" /\ hub.nil THEN [info |-> NoInfo, err |-> err]
    ELSE [info |-> [nil |-> FALSE, Name |-> hub.Name, Desc |-> hub.Desc,
                    Users |-> Len(hub.Users), Share |-> SumShare(hub.Users)],
          err |-> err]

PStep(p) ==
    /\ ping' = p
    /\ UNCHANGED <<cvars, ivars, nvars, avars, dvars, evars, hvars, rvars,
                   gvars, mvars, yvars>>

PingDone(p, r) == [p EXCEPT !.pc = "done", !.info = r.info, !.rerr = r.err]

\* Ping of an address without scheme: Probe finds the protocol, or fails.
PingProbe ==
    /\ ping.pc = "call"
    /\ ping.scheme = ""
    /\ \/ \E s \in {nmdcSchema, adcsSchema} :
             PStep([ping EXCEPT !.scheme = s, !.probed = TRUE])
       \/ PStep(PingDone([ping EXCEPT !.probed = TRUE],
                         [info |-> NoInfo, err |-> Err("other", "", 0, "probe")]))

PingNMDC ==
    /\ ping.pc = "call"
    /\ ping.scheme \in {nmdcSchema, nmdcsSchema}
    /\ PStep(PingDone(ping, pingNMDC(ping.hub, ping.err)))

PingADC ==
    /\ ping.pc = "call"
    /\ ping.scheme \in {adcSchema, adcsSchema}
    /\ PStep(PingDone(ping, pingADC(ping.hub, ping.err)))

PingUnsupported ==
    /\ ping.pc = "call"
    /\ ping.scheme \notin {"", nmdcSchema, nmdcsSchema, adcSchema, adcsSchema}
    /\ PStep(PingDone(ping, [info |-> NoInfo,
                             err |-> Err("other", "", 0, "unsupported protocol")]))

NextPing ==
    \/ PingProbe
    \/ PingNMDC
    \/ PingADC
    \/ PingUnsupported

NewPing(scheme, hub, err) ==
    [pc |-> "call", scheme |-> scheme, probed |-> FALSE,
     hub |-> hub, err |-> err,       \* what nmdc.Ping or adc.Ping will return
     info |-> NoInfo, rerr |-> ErrNil]

\* nmdc.Ping and adc.Ping return a hub, an error, or both.
InitPing ==
    ping \in {NewPing(s, hub, err) :
                s \in PingSchemes,
                hub \in PingHubs,
                err \in {e \in PingErrs : e.k # "nil"} \cup {ErrNil}}
    /\ ~(ping.hub.nil /\ ping.err.k = "nil")

InitNoPing == ping = NewPing("http", NoHub, Err("other", "", 0, "timeout"))

\* C24: Ping over NMDC reports a registered-only refusal as a fatal status
\* 26 and a ban as a fatal status 30 with the ban's reason; with an error and
\* no hub information it returns (nil, error), with an error and hub
\* information the filled HubInfo and the error.
C24_PingErrors ==
    (ping.pc = "done" /\ ping.scheme \in {nmdcSchema, nmdcsSchema}) =>
        /\ ping.err.k = "regonly" =>
              ping.rerr = Err("status", "fatal", 26, ping.err.msg)
        /\ ping.err.k = "banned" =>
              ping.rerr = Err("status", "fatal", 30, ping.err.msg)
        /\ ping.err.k \notin {"regonly", "banned"} => ping.rerr = ping.err
        /\ (ping.err.k # "nil" /\ ping.hub.nil) =>
              ping.info.nil /\ ping.rerr.k # "nil"
        /\ ~ping.hub.nil =>
              /\ ~ping.info.nil
              /\ ping.info.Name = ping.hub.Name
              /\ ping.info.Users = Len(ping.hub.Users)
              /\ ping.info.Desc \in {ping.hub.Desc, ping.hub.Topic}

\* C24 witness: a ping found the hub's information and a ban.
C24_Witness ==
    /\ ping.pc = "done"
    /\ ping.scheme = nmdcSchema
    /\ ping.probed
    /\ ping.rerr = Err("status", "fatal", 30, "spam")
    /\ ping.info.Users = 2

\* No handshake is under way.
InitIdle ==
    /\ hs = NewHandshake([pid |-> NoPID, name |-> ""])
    /\ ptab = NewPeers

\* A hub whose configuration plays no part in the run.
InitNoConfig ==
    /\ private0 = FALSE
    /\ conf = NewConf(private0)
    /\ cfgTried = {}
    /\ cfgKeys = {}
    /\ cfgLast = NoCall

(***************************************************************************)
(*                           Specifications                                *)
(***************************************************************************)

\* A hub on which only the configuration calls are made.
InitSpecConfig ==
    /\ InitConfig /\ InitIRC /\ InitNMDC /\ InitADC /\ InitDeliver /\ InitEnc
    /\ InitIdle /\ InitNoPing /\ InitNoRev /\ InitNoGet /\ InitNoMerge /\ InitNoIP

SpecConfig == InitSpecConfig /\ [][NextConfig]_vars

\* A hub that serves IRC connections.
InitSpecIRC ==
    /\ InitIRCConf /\ InitIRC /\ InitNMDC /\ InitADC /\ InitDeliver /\ InitEnc
    /\ InitIdle /\ InitNoPing /\ InitNoRev /\ InitNoGet /\ InitNoMerge /\ InitNoIP

SpecIRC == InitSpecIRC /\ [][NextIRC]_vars

\* One NMDC connection used by several tasks.
InitSpecNMDC ==
    /\ InitNoConfig /\ InitIRC /\ InitNMDC /\ InitADC /\ InitDeliver /\ InitEnc
    /\ InitIdle /\ InitNoPing /\ InitNoRev /\ InitNoGet /\ InitNoMerge /\ InitNoIP

SpecNMDC == InitSpecNMDC /\ [][NextNMDC]_vars

\* One ADC client connection closed by several tasks.
InitSpecADC ==
    /\ InitNoConfig /\ InitIRC /\ InitNMDC /\ InitADC /\ InitDeliver /\ InitEnc
    /\ InitIdle /\ InitNoPing /\ InitNoRev /\ InitNoGet /\ InitNoMerge /\ InitNoIP

SpecADC == InitSpecADC /\ [][NextADC]_vars

\* Three online peers exchanging chat.
InitSpecDeliver ==
    /\ InitNoConfig /\ InitIRC /\ InitNMDC /\ InitADC /\ InitDeliver /\ InitEnc
    /\ InitIdle /\ InitNoPing /\ InitNoRev /\ InitNoGet /\ InitNoMerge /\ InitNoIP

SpecDeliver == InitSpecDeliver /\ [][NextDeliver]_vars

\* One NMDC connection whose encoding changes.
InitSpecEnc ==
    /\ InitNoConfig /\ InitIRC /\ InitNMDC /\ InitADC /\ InitDeliver /\ InitEnc
    /\ InitIdle /\ InitNoPing /\ InitNoRev /\ InitNoGet /\ InitNoMerge /\ InitNoIP

SpecEnc == InitSpecEnc /\ [][NextEnc]_vars

\* One ADC client shaking hands with a hub and then reading from it.
InitSpecHandshake ==
    /\ InitNoConfig /\ InitIRC /\ InitNMDC /\ InitADC /\ InitDeliver /\ InitEnc
    /\ InitHandshake /\ InitNoPing /\ InitNoRev /\ InitNoGet /\ InitNoMerge /\ InitNoIP

SpecHandshake == InitSpecHandshake /\ [][NextHandshake]_vars

\* Calls of Ping, one for every address and every answer of the hub.
InitSpecPing ==
    /\ InitNoConfig /\ InitIRC /\ InitNMDC /\ InitADC /\ InitDeliver /\ InitEnc
    /\ InitIdle /\ InitPing /\ InitNoRev /\ InitNoGet /\ InitNoMerge /\ InitNoIP

SpecPing == InitSpecPing /\ [][NextPing]_vars

\* Callers asking for reverse-connection tokens while the read loop answers.
InitSpecRevConn ==
    /\ InitNoConfig /\ InitIRC /\ InitNMDC /\ InitADC /\ InitDeliver /\ InitEnc
    /\ InitIdle /\ InitNoPing /\ InitRevConn /\ InitNoGet /\ InitNoMerge /\ InitNoIP

SpecRevConn == InitSpecRevConn /\ [][NextRevConn]_vars

\* One key of a new hub is set, or left unset, and read with every getter.
InitSpecGetters ==
    /\ InitNoConfig /\ InitIRC /\ InitNMDC /\ InitADC /\ InitDeliver /\ InitEnc
    /\ InitIdle /\ InitNoPing /\ InitNoRev /\ InitGetters /\ InitNoMerge /\ InitNoIP

SpecGetters == InitSpecGetters /\ [][NextGetters]_vars

\* Config files merged into a new hub.
InitSpecMerge ==
    /\ InitNoConfig /\ InitIRC /\ InitNMDC /\ InitADC /\ InitDeliver /\ InitEnc
    /\ InitIdle /\ InitNoPing /\ InitNoRev /\ InitNoGet /\ InitMerge /\ InitNoIP

SpecMerge == InitSpecMerge /\ [][NextMerge]_vars

\* The myip plugin
InitSpecMyIP ==
    /\ InitNoConfig /\ InitIRC /\ InitNMDC /\ InitADC /\ InitDeliver /\ InitEnc
    /\ InitIdle /\ InitNoPing /\ InitNoRev /\ InitNoGet /\ InitNoMerge /\ InitMyIP

SpecMyIP == InitSpecMyIP /\ [][NextMyIP]_vars

====
